---- MODULE Spec2Model ----
(***************************************************************************)
(* State-machine model of the video annotation pipeline of sito_yolo:      *)
(* the Celery task process_video_detection (detection/tasks.py), the       *)
(* VideoDetection / Detection records (detection/models.py) and the web    *)
(* operations that touch a job (detection/views.py).                       *)
(*                                                                         *)
(* One job is followed through its life.  The database row of the job,     *)
(* the number of Detection rows that reference it and the files on         *)
(* storage are the persisted state; the task's local variables and its     *)
(* position in the code are the state of a run.  Every database call,      *)
(* the model load, the video open, the writer, the inference call, the     *)
(* external transcode and every write to the result backend can fail, as   *)
(* they can in the deployment.  Every write to the database, to storage    *)
(* or to the result backend is a step of its own, so the other processes   *)
(* (the views, a kill of the worker) come between any two of them.         *)
(*                                                                         *)
(* The worker process keeps the loaded model and the class-color map       *)
(* across runs.  The requests for sample videos (use_sample_video) and     *)
(* the rows they make have a specification of their own.                   *)
(***************************************************************************)
EXTENDS Integers, Sequences, FiniteSets, TLC

VARIABLES
    video,               \* the uploaded source: decodable frames, reported count, ...
    job,                 \* the VideoDetection row (job.exists = FALSE: no row)
    detections,          \* number of Detection rows referencing the job
    files,               \* paths present on storage
    model_cached,        \* lru_cache of _load_model holds a (model, device) pair
    pc,                  \* position of the task run
    runs,                \* task invocations so far
    vd,                  \* the task's local vd is not None
    total_frames,        \* local total_frames
    frame_idx,           \* local frame_idx
    det_counter,         \* local det_counter
    batch,               \* len(batch), the in-memory buffer
    use_raw_as_fallback, \* local use_raw_as_fallback
    ffmpeg_result,       \* how subprocess.run ended in this run
    exc,                 \* the exception e being handled ("" : none)
    fail_saved,          \* the failure path's vd.save went through
    flushes,             \* the bulk_create calls of this run, in order
    task_state,          \* what the job-status channel holds (state, meta)
    outcome,             \* how the last finished run ended
    view_pc,             \* position of the submitting view
    last_delete,         \* what the last delete_video did
    names,               \* model.names of the checkpoint, in class-id order
    loads,               \* times the body of _load_model built a model
    class_color_map,     \* the module global _CLASS_COLOR_MAP
    batch_recs,          \* frame_number of the records in batch, in order
    written,             \* frame_number of the records this run wrote, in order
    drawn,               \* (class_name, color) of the boxes this run drew
    open_handles,        \* the capture and the writer this run holds open
    sample_rows,         \* rows created by use_sample_video
    next_id,             \* next primary key of VideoDetection
    queued,              \* job ids use_sample_video submitted to the task queue
    response,            \* what the last use_sample_video request answered
    sample_req,          \* the use_sample_video request being served
    sample_del,          \* the delete_video request on a sample job being served
    sample_log,          \* the sample jobs delete_video requests have read so far
    status_view,         \* what the last check_video_status request answered
    pair_rows,           \* rows of the jobs that run side by side, by id
    pair_dets,           \* number of Detection rows of each of them
    pair_run,            \* position and local variables of the run of each
    pair_view,           \* position of the view that submitted each
    pair_del,            \* the delete_video request on one of them
    pair_faults,         \* number of faults injected into their steps
    del_pc,              \* position of the delete_video request
    del_obj              \* the file fields of the row delete_video has read

vars == <<video, job, detections, files, model_cached, pc, runs, vd,
          total_frames, frame_idx, det_counter, batch, use_raw_as_fallback,
          ffmpeg_result, exc, fail_saved, flushes, task_state, outcome,
          view_pc, last_delete, names, loads, class_color_map, batch_recs,
          written, drawn, open_handles, sample_rows, next_id,
          queued, response, sample_req, sample_del, sample_log, status_view,
          pair_rows, pair_dets, pair_run, pair_view, pair_del, pair_faults,
          del_pc, del_obj>>

locals == <<vd, total_frames, frame_idx, det_counter, batch,
            use_raw_as_fallback, ffmpeg_result, exc, fail_saved,
            batch_recs, open_handles>>

\* The state of the worker process besides the lru_cache.
model_vars == <<loads, class_color_map>>

\* What a run has buffered, written and drawn.
records == <<batch_recs, written, drawn>>

\* The jobs that run side by side: rows, Detection rows, runs.
pair_vars == <<pair_rows, pair_dets, pair_run, pair_view, pair_del,
               pair_faults>>

\* The delete_video request in progress.
del_vars == <<del_pc, del_obj>>

\* The state use_sample_video works on.
sample_vars == <<sample_rows, next_id, queued, response, sample_req,
                 sample_del, sample_log>>

(***************************************************************************)
(* Bounds of the model.                                                    *)
(***************************************************************************)
MaxFrames == 11
MaxSkew == 1
MaxRuns == 2
MaxBatchFrames == 3
MaxNames == 7
MaxSampleJobs == 2
MaxKillFrames == 2
MaxPairJobs == 2
PairFrames == 10
PairBoxes == 300
ColorFrames == 2
PairShort == 2
MaxPairFaults == 2

(***************************************************************************)
(* Program constants.                                                      *)
(***************************************************************************)
BATCH_SIZE == 512
PROGRESS_EVERY == 10

\* A null CharField/TextField, a null user, and an empty FileField.
None == "None"
NoFile == <<>>

\* The one job followed, its owner (obj.user = request.user) and the id of
\* the task that process_video_detection.delay returned.
JobId == "job1"
UserId == "user1"
TaskId == "task1"
FileName == "clip.mp4"

(***************************************************************************)
(* Storage layout.                                                         *)
(***************************************************************************)
user_id_str(user_id) == IF user_id = None THEN "anon" ELSE user_id

original_upload_path(user_id, filename) ==
    <<"videos", user_id_str(user_id), "original", filename>>

\* Mutant of raw_path: the raw file is named without the id of the job.
raw_path_shared(user_id, id) ==
    <<"videos", user_id_str(user_id), "processed", "processed_raw_", "", ".mp4">>

raw_path(user_id, id) ==
    <<"videos", user_id_str(user_id), "processed", "processed_raw_", id, ".mp4">>

final_path(user_id, id) ==
    <<"videos", user_id_str(user_id), "processed", "processed_", id, ".mp4">>

preview_path(user_id, id) ==
    <<"videos", user_id_str(user_id), "preview", "preview_", id, ".jpg">>

RECURSIVE Concat(_)
\* The strings of a sequence, one after the other.
Concat(s) == IF s = <<>> THEN "" ELSE s[1] \o Concat(Tail(s))

\* The relative name of a path: base / "videos" / user / directory, then
\* the file name as the f-string builds it.
PathString(p) ==
    p[1] \o "/" \o p[2] \o "/" \o p[3] \o "/" \o Concat(SubSeq(p, 4, Len(p)))

\* Mutant of final_rel: the fallback flag is ignored.
final_rel_no_fallback(user_id, id, fallback) == final_path(user_id, id)

\* Mutant of final_rel: the raw file is the output in every case.
final_rel_always_raw(user_id, id, fallback) == raw_path(user_id, id)

\* final_rel of the task: the raw file on fallback, else the re-encoded one.
final_rel(user_id, id, fallback) ==
    IF fallback THEN raw_path(user_id, id) ELSE final_path(user_id, id)

(***************************************************************************)
(* Progress arithmetic.  int((a / b) * 100) of the code is a float         *)
(* computation; for a <= 22 and b <= 39 it equals the integer quotient     *)
(* below (the first difference is a = 23, b = 5), which covers every       *)
(* value the bounds of this model produce.                                 *)
(***************************************************************************)
progress_percentage(j) ==
    IF j.total_frames > 0
    THEN (j.processed_frames * 100) \div j.total_frames
    ELSE 0

\* Mutant of Percentage: an unknown total is counted as one frame.
Percentage_total_one(current, total) ==
    (current * 100) \div (IF total # 0 THEN total ELSE 1)

\* The "percentage" entry of a PROGRESS update.
Percentage(current, total) ==
    IF total # 0 THEN (current * 100) \div total ELSE 0

\* Mutant of ProgressDue: every iteration saves and reports progress.
ProgressDue_every_frame(idx, total) == idx >= 0

\* Mutant of ProgressDue: the frame that reaches the reported total does
\* not count.
ProgressDue_no_total(idx, total) == idx % PROGRESS_EVERY = 0

\* The condition under which an iteration saves and reports progress.
ProgressDue(idx, total) ==
    idx % PROGRESS_EVERY = 0 \/ (total # 0 /\ idx = total)

\* Mutant of FlushDue: the buffer is flushed at twice the batch size.
FlushDue_double(n) == n >= 2 * BATCH_SIZE

\* Mutant of FlushDue: the threshold itself does not flush.
FlushDue_strict(n) == n > BATCH_SIZE

\* The condition under which an iteration flushes the buffer.
FlushDue(n) == n >= BATCH_SIZE

(***************************************************************************)
(* Class names and box colors.  model.names is modelled as the ordered     *)
(* list of names (a list, or a dict with keys 0..n-1 read in key order).   *)
(***************************************************************************)

\* The fixed BGR palette.
CLASS_PALETTE_6 ==
    <<(<<0, 255, 0>>), (<<255, 0, 0>>), (<<0, 0, 255>>),
      (<<0, 255, 255>>), (<<255, 0, 255>>), (<<255, 255, 0>>)>>

\* The color of a box whose class name is not in the map.
DEFAULT_COLOR == <<0, 255, 0>>

\* An empty dict.
EmptyMap == <<>>

RECURSIVE color_map_from(_, _, _)
\* for i, name in enumerate(names_list): color_map[name] = palette[i % 6],
\* from the i-th name on (i counts from 1 here, from 0 in the code).
color_map_from(names_list, i, color_map) ==
    IF i > Len(names_list)
    THEN color_map
    ELSE color_map_from(names_list, i + 1,
             (names_list[i] :>
                 CLASS_PALETTE_6[((i - 1) % Len(CLASS_PALETTE_6)) + 1])
             @@ color_map)

\* Mutant of build_class_color_map: the first position of a name decides.
build_class_color_map_first_wins(names_list) ==
    [name \in {names_list[i] : i \in 1..Len(names_list)} |->
        LET first == CHOOSE i \in 1..Len(names_list) :
                         /\ names_list[i] = name
                         /\ \A k \in 1..(i - 1) : names_list[k] # name
        IN  CLASS_PALETTE_6[((first - 1) % Len(CLASS_PALETTE_6)) + 1]]

\* _build_class_color_map(model)
build_class_color_map(names_list) == color_map_from(names_list, 1, EmptyMap)

\* The class name the task gives to a box of class cls_id.
class_name_of(names_list, cls_id) ==
    IF cls_id < Len(names_list) THEN names_list[cls_id + 1]
    ELSE ToString(cls_id)

\* _CLASS_COLOR_MAP.get(class_name, (0, 255, 0))
color_of(color_map, class_name) ==
    IF class_name \in DOMAIN color_map THEN color_map[class_name]
    ELSE DEFAULT_COLOR

(***************************************************************************)
(* Environment faults a step can meet.                                     *)
(***************************************************************************)
Faults == {"db_get", "db_save", "db_bulk", "model", "mkdir", "writer", "predict",
           "preview", "ffmpeg_absent", "ffmpeg_nonzero", "ffmpeg_oserror",
           "unlink", "rm", "backend", "db_delete"}
NoFaults == {}

Choice(F, kinds) == {"none"} \cup (F \cap kinds)

(***************************************************************************)
(* Initial state: the upload view has saved the job (status pending, the   *)
(* source stored under the owner's directory) and has submitted the task;  *)
(* it has not yet stored the task id.                                      *)
(***************************************************************************)
NewJob ==
    [exists |-> TRUE, id |-> JobId, user_id |-> UserId,
     original_video |-> original_upload_path(UserId, FileName),
     processed_video |-> NoFile, status |-> "pending",
     total_frames |-> 0, processed_frames |-> 0, detections_count |-> 0,
     error_message |-> None, task_id |-> None]

\* What is left of the row after delete: nothing.
NoRow ==
    [exists |-> FALSE, id |-> JobId, user_id |-> UserId,
     original_video |-> NoFile,
     processed_video |-> NoFile, status |-> "deleted",
     total_frames |-> 0, processed_frames |-> 0, detections_count |-> 0,
     error_message |-> None, task_id |-> None]

\* No row has been read by a delete_video request.
NoObj == [original_video |-> NoFile, processed_video |-> NoFile]

\* The frame counts a container can report for a source of n frames:
\* 0 (unknown), or n off by at most MaxSkew either way.
Reported(n) == {0} \cup {t \in (n - MaxSkew)..(n + MaxSkew) : t >= 0}

\* The frame counts of the sources: none, one, two, and from the first
\* progress point (every 10th frame) up to MaxFrames.
FrameCounts == {0, 1, 2} \cup (PROGRESS_EVERY..MaxFrames)

\* The sources of the main specification: a frame count of FrameCounts,
\* every frame yielding the same number of boxes (none, or 300), and one
\* file that cannot be opened.  video.dets is the set of box counts the
\* model can return for a frame of the source, video.classes the set of
\* class ids its boxes can have.
Videos ==
    {v \in [frames : FrameCounts, reported : 0..(MaxFrames + MaxSkew),
             openable : {TRUE}, dets : {{0}, {300}}, classes : {{0}}] :
        v.reported \in Reported(v.frames)}
    \cup {[frames |-> 0, reported |-> 0, openable |-> FALSE, dets |-> {0},
           classes |-> {0}]}

\* The sources of the batching specification: a few frames, each with any
\* of these box counts, and one source of 1025 frames with one box each.

BatchVideos ==
    {[frames |-> n, reported |-> t, openable |-> TRUE,
      dets |-> {0, 1, 425, 511, 512, 600, 1025}, classes |-> {0}] :
        n \in 1..MaxBatchFrames, t \in {0, MaxBatchFrames}}
    \cup {[frames |-> 2 * BATCH_SIZE + 1, reported |-> 0, openable |-> TRUE,
           dets |-> {1}, classes |-> {0}]}

\* The sources of the color specification, of ColorFrames frames: one
\* whose frames hold one box each, of any class id, one of them beyond
\* the names; and one whose frames hold two boxes or as many as fill the
\* buffer, of classes 0 and 1 and of the class beyond the names, mixed in
\* any way; and one long enough for a preview, of one box per frame.
ColorVideos ==
    {[frames |-> ColorFrames, reported |-> ColorFrames, openable |-> TRUE,
      dets |-> {1}, classes |-> 0..MaxNames],
     [frames |-> ColorFrames, reported |-> ColorFrames, openable |-> TRUE,
      dets |-> {2, BATCH_SIZE}, classes |-> {0, 1, MaxNames}],
     [frames |-> PROGRESS_EVERY, reported |-> 0, openable |-> TRUE,
      dets |-> {1}, classes |-> {0}]}

\* The name of the class whose id is i in a checkpoint without repeated
\* names.
Label(i) == "c" \o ToString(i)

\* The class-name lists of n names: every position holds its own name or
\* repeats the name of class 0.
NamesOfLen(n) ==
    {[i \in 1..n |-> IF c[i] THEN Label(0) ELSE Label(i - 1)] :
        c \in [1..n -> BOOLEAN]}

\* The class-name lists a checkpoint can carry: none (no names at all) up
\* to MaxNames names.
NamesLists == UNION {NamesOfLen(n) : n \in 0..MaxNames}

\* The names of the checkpoint of the main specification.
DefaultNames == <<Label(0), Label(1)>>

NoLocals ==
    /\ vd' = FALSE
    /\ total_frames' = 0
    /\ frame_idx' = 0
    /\ det_counter' = 0
    /\ batch' = 0
    /\ use_raw_as_fallback' = FALSE
    /\ ffmpeg_result' = "none"
    /\ exc' = ""
    /\ fail_saved' = FALSE
    /\ batch_recs' = <<>>
    /\ open_handles' = {}

\* No use_sample_video request is being served.
NoRequest == [pc |-> "idle", code |-> "none", name |-> NoFile, id |-> 0]

\* No delete_video request on a sample job is being served.
NoSampleDelete == [pc |-> "idle"]

\* No delete_video request has read a sample job: first is the id the
\* next new row would get when the first request read its row (0: none
\* has), ids the ids of the rows read.
NoSampleLog == [first |-> 0, ids |-> {}]

\* No delete_video request on one of the jobs side by side is being
\* served.
NoPairDelete == [pc |-> "idle", job |-> 0, obj |-> NoObj]

\* The state in which the sources are V, the checkpoint's names one of N,
\* the row j and the files on storage fs; no run has started and no sample
\* has been requested.
InitOne(V, N, j) ==
    /\ video \in V
    /\ names \in N
    /\ job = j
    /\ detections = 0
    /\ model_cached = FALSE
    /\ pc = "idle"
    /\ runs = 0
    /\ vd = FALSE
    /\ total_frames = 0
    /\ frame_idx = 0
    /\ det_counter = 0
    /\ batch = 0
    /\ use_raw_as_fallback = FALSE
    /\ ffmpeg_result = "none"
    /\ exc = ""
    /\ fail_saved = FALSE
    /\ flushes = <<>>
    /\ task_state = [state |-> "PENDING"]
    /\ outcome = "none"
    /\ view_pc = "submitted"
    /\ last_delete = [done |-> FALSE, rm_failed |-> {}, had |-> {},
                       fields |-> {}]
    /\ loads = 0
    /\ class_color_map = EmptyMap
    /\ batch_recs = <<>>
    /\ written = <<>>
    /\ drawn = {}
    /\ open_handles = {}
    /\ sample_rows = {}
    /\ next_id = 1
    /\ queued = {}
    /\ response = "none"
    /\ sample_req = NoRequest
    /\ sample_del = NoSampleDelete
    /\ sample_log = NoSampleLog
    /\ status_view = [code |-> "none"]
    /\ del_pc = "idle"
    /\ del_obj = NoObj

\* The state after construction with storage fs and no jobs side by
\* side.
InitState(V, N, j, fs) ==
    /\ InitOne(V, N, j)
    /\ files = fs
    /\ pair_rows = <<>>
    /\ pair_dets = <<>>
    /\ pair_run = <<>>
    /\ pair_view = <<>>
    /\ pair_del = NoPairDelete
    /\ pair_faults = 0

InitWith(V) ==
    InitState(V, {DefaultNames}, NewJob,
              {original_upload_path(UserId, FileName)})

Init == InitWith(Videos)

InitBatch == InitWith(BatchVideos)

\* Any checkpoint, and a source whose boxes are of any class.
InitColor ==
    InitState(ColorVideos, NamesLists, NewJob,
              {original_upload_path(UserId, FileName)})

\* Fields of the task's in-memory vd that no step changes.
vd_original_video == original_upload_path(UserId, FileName)
vd_raw_path == raw_path(UserId, JobId)
vd_final_path == final_path(UserId, JobId)
vd_preview_path == preview_path(UserId, JobId)

\* raise: control passes to the except clause with e bound.
Raise(e) ==
    /\ pc' = "except"
    /\ exc' = e

(***************************************************************************)
(* The task process_video_detection, one action per step of its body.      *)
(* F is the set of faults the environment may inject.                      *)
(***************************************************************************)

\* The worker starts executing the task for the job (vd = None).  The
\* views submit it once per job; the broker, an operator or any caller of
\* the task can make it run again on the same id, max times in all.
T_Invoke(max) ==
    /\ pc = "idle"
    /\ runs < max
    /\ pc' = "get"
    /\ runs' = runs + 1
    /\ NoLocals
    /\ flushes' = <<>>
    /\ outcome' = "none"
    /\ task_state' = [state |-> "STARTED"]
    /\ written' = <<>>
    /\ drawn' = {}
    /\ UNCHANGED <<video, names, status_view, pair_vars, del_vars, sample_vars, job, detections, files,
                   model_cached, model_vars, view_pc, last_delete>>

\* vd = VideoDetection.objects.get(id=video_detection_id)
T_Get(F) ==
    /\ pc = "get"
    /\ \E fault \in Choice(F, {"db_get"}) :
         IF fault = "db_get"
         THEN Raise("OperationalError") /\ vd' = vd
         ELSE IF ~job.exists
              THEN Raise("DoesNotExist") /\ vd' = vd
              ELSE vd' = TRUE /\ pc' = "mark" /\ exc' = exc
    /\ UNCHANGED <<video, names, status_view, pair_vars, del_vars, sample_vars, job, detections, files,
                   model_cached, model_vars, records, open_handles, runs,
                   total_frames, frame_idx, det_counter, batch,
                   use_raw_as_fallback, ffmpeg_result, fail_saved, flushes,
                   task_state, outcome, view_pc, last_delete>>

\* Mutant of MarkProcessing: the counters are not reset.
MarkProcessing_keep_counters(j) ==
    [j EXCEPT !.status = "processing", !.error_message = ""]

\* The row as the first save leaves it.
MarkProcessing(j) ==
    [j EXCEPT !.status = "processing", !.processed_frames = 0,
              !.detections_count = 0, !.error_message = ""]

\* status = "processing", counters reset, error cleared, saved.
T_MarkProcessing(F) ==
    /\ pc = "mark"
    /\ \E fault \in Choice(F, {"db_save"}) :
         IF fault = "db_save" \/ ~job.exists
         THEN Raise("DatabaseError") /\ job' = job
         ELSE /\ job' = MarkProcessing(job)
              /\ pc' = "load_model"
              /\ exc' = exc
    /\ UNCHANGED <<video, names, status_view, pair_vars, del_vars, sample_vars, detections, files,
                   model_cached, model_vars, records, open_handles, runs, vd,
                   total_frames, frame_idx, det_counter, batch,
                   use_raw_as_fallback, ffmpeg_result, fail_saved, flushes,
                   task_state, outcome, view_pc, last_delete>>

\* Mutant of T_LoadModel: no cache, every call runs the body.
T_LoadModel_uncached(F) ==
    /\ pc = "load_model"
    /\ \E fault \in Choice(F, {"model"}) :
         IF fault = "model"
         THEN /\ Raise("FileNotFoundError") /\ model_cached' = FALSE
              /\ UNCHANGED model_vars
         ELSE /\ pc' = "open" /\ exc' = exc /\ model_cached' = TRUE
              /\ loads' = loads + 1
              /\ class_color_map' = build_class_color_map(names)
    /\ UNCHANGED <<video, names, status_view, pair_vars, del_vars, sample_vars, job, detections, files, runs, vd,
                   records, open_handles,
                   total_frames, frame_idx, det_counter, batch,
                   use_raw_as_fallback, ffmpeg_result, fail_saved, flushes,
                   task_state, outcome, view_pc, last_delete>>

\* model, device = _load_model(): cached per worker process by lru_cache;
\* a call that raises is not cached.  The body checks the model path,
\* builds the model and sets the color map of the process.
T_LoadModel(F) ==
    /\ pc = "load_model"
    /\ IF model_cached
       THEN /\ pc' = "open" /\ exc' = exc /\ model_cached' = model_cached
            /\ UNCHANGED model_vars
       ELSE \E fault \in Choice(F, {"model"}) :
              IF fault = "model"
              THEN /\ Raise("FileNotFoundError") /\ model_cached' = FALSE
                   /\ UNCHANGED model_vars
              ELSE /\ pc' = "open" /\ exc' = exc /\ model_cached' = TRUE
                   /\ loads' = loads + 1
                   /\ class_color_map' = build_class_color_map(names)
    /\ UNCHANGED <<video, names, status_view, pair_vars, del_vars, sample_vars, job, detections, files, runs, vd,
                   records, open_handles,
                   total_frames, frame_idx, det_counter, batch,
                   use_raw_as_fallback, ffmpeg_result, fail_saved, flushes,
                   task_state, outcome, view_pc, last_delete>>

\* Open the source, probe the first frame and read the reported frame
\* count: cv2.VideoCapture holds the file from here on.
T_Open ==
    /\ pc = "open"
    /\ IF ~video.openable \/ vd_original_video \notin files
       THEN Raise("VideoOpenError")
            /\ total_frames' = total_frames
            /\ open_handles' = open_handles
       ELSE IF video.frames = 0
       THEN Raise("EmptyVideoError")
            /\ total_frames' = total_frames
            /\ open_handles' = open_handles \cup {"cap"}
       ELSE /\ total_frames' = video.reported
            /\ open_handles' = open_handles \cup {"cap"}
            /\ pc' = "save_total"
            /\ exc' = exc
    /\ UNCHANGED <<video, names, status_view, pair_vars, del_vars, sample_vars, job, detections, files,
                   model_cached, model_vars, records, runs, vd,
                   frame_idx, det_counter, batch,
                   use_raw_as_fallback, ffmpeg_result, fail_saved, flushes,
                   task_state, outcome, view_pc, last_delete>>

\* The row as the save of total_frames leaves it.
SaveTotal(j, total) == [j EXCEPT !.total_frames = total]

\* vd.total_frames = total_frames;
\* vd.save(update_fields=["total_frames", "updated_at"])
T_SaveTotal(F) ==
    /\ pc = "save_total"
    /\ \E fault \in Choice(F, {"db_save"}) :
         IF fault = "db_save" \/ ~job.exists
         THEN Raise("DatabaseError") /\ job' = job
         ELSE /\ job' = SaveTotal(job, total_frames)
              /\ pc' = "writer"
              /\ exc' = exc
    /\ UNCHANGED <<video, names, status_view, pair_vars, del_vars, sample_vars, detections, files,
                   model_cached, model_vars, records, open_handles, runs, vd,
                   total_frames, frame_idx, det_counter, batch,
                   use_raw_as_fallback, ffmpeg_result, fail_saved, flushes,
                   task_state, outcome, view_pc, last_delete>>

\* Output directories and the OpenCV writer of the raw file; the loop's
\* counters start at 0.  Path.mkdir of either directory can raise, and so
\* can the test writer.isOpened().
T_Writer(F) ==
    /\ pc = "writer"
    /\ \E fault \in Choice(F, {"mkdir", "writer"}) :
         IF fault = "mkdir"
         THEN Raise("PermissionError")
              /\ UNCHANGED <<files, frame_idx, det_counter, batch,
                             batch_recs, open_handles>>
         ELSE IF fault = "writer"
         THEN Raise("WriterInitError")
              /\ UNCHANGED <<files, frame_idx, det_counter, batch,
                             batch_recs, open_handles>>
         ELSE /\ files' = files \cup {vd_raw_path}
              /\ open_handles' = open_handles \cup {"writer"}
              /\ frame_idx' = 0
              /\ det_counter' = 0
              /\ batch' = 0
              /\ batch_recs' = <<>>
              /\ pc' = "loop"
              /\ exc' = exc
    /\ UNCHANGED <<video, names, status_view, pair_vars, del_vars, sample_vars, job, detections,
                   model_cached, model_vars, written, drawn,
                   runs, vd,
                   total_frames,
                   use_raw_as_fallback, ffmpeg_result, fail_saved, flushes,
                   task_state, outcome, view_pc, last_delete>>

\* Mutant of new_records: the records carry the count of frames read.
new_records_counted(idx, d) ==
    IF d > 0 THEN <<[frame_number |-> idx + 1, n |-> d]>> ELSE <<>>

\* The Detection records appended for a frame of d boxes read when
\* frame_idx was idx: n records of frame_number idx, kept as one entry.
new_records(idx, d) ==
    IF d > 0 THEN <<[frame_number |-> idx, n |-> d]>> ELSE <<>>

\* Where an iteration goes after the preview of frame idx, with n records
\* in the buffer: to the threshold flush, to the progress save or back to
\* cap.read().
AfterPreview(idx, total, n) ==
    IF FlushDue(n) THEN "flush"
    ELSE IF ProgressDue(idx, total) THEN "progress" ELSE "loop"

\* The condition under which an iteration writes the preview image.
PreviewDue(idx) == idx % PROGRESS_EVERY = 0

\* Where an iteration goes after frame idx has been written and counted:
\* to the preview every 10th frame, else on as after the preview.
AfterFrame(idx, total, n) ==
    IF PreviewDue(idx) THEN "preview" ELSE AfterPreview(idx, total, n)

\* The sets of class ids the d boxes of a frame can have when the boxes
\* of the source are of the classes given: every box has one class, so d
\* boxes have between 1 and d classes, and no box has none.
ClassSets(classes, d) ==
    IF d = 0 THEN {{}}
    ELSE {cs \in SUBSET classes : cs # {} /\ Cardinality(cs) <= d}

\* What the boxes of the class ids cs add to the drawing: each box is
\* drawn with the name of its class in the color of that name.
draw_boxes(names_list, color_map, cs) ==
    {<<class_name_of(names_list, cls_id),
       color_of(color_map, class_name_of(names_list, cls_id))>> :
        cls_id \in cs}

\* An iteration of the frame loop whose cap.read() returned a frame, up
\* to the preview: inference (d boxes, whose classes are cs), d records of
\* frame_number frame_idx appended and their boxes drawn, each in the
\* color of its class, the frame written, frame_idx counted.
T_Frame(F) ==
    /\ pc = "loop"
    /\ frame_idx < video.frames
    /\ \E d \in video.dets, fault \in Choice(F, {"predict"}) :
       \E cs \in ClassSets(video.classes, d) :
         IF fault = "predict"
         THEN /\ Raise("InferenceError")
              /\ UNCHANGED <<frame_idx, det_counter, batch, batch_recs,
                             drawn>>
         ELSE
           LET idx1 == frame_idx + 1
               b1 == batch + d
           IN  /\ frame_idx' = idx1
               /\ det_counter' = det_counter + d
               /\ batch' = b1
               /\ batch_recs' = batch_recs \o new_records(frame_idx, d)
               /\ drawn' = drawn \cup draw_boxes(names, class_color_map, cs)
               /\ pc' = AfterFrame(idx1, total_frames, b1)
               /\ exc' = exc
    /\ UNCHANGED <<video, names, status_view, pair_vars, del_vars, sample_vars, job, detections, files,
                   model_cached, model_vars, written, flushes, task_state,
                   open_handles, runs, vd, total_frames,
                   use_raw_as_fallback, ffmpeg_result, fail_saved,
                   outcome, view_pc, last_delete>>

\* if frame_idx % 10 == 0: try cv2.imwrite(preview_path, annotated); what
\* it raises is logged and dropped.
T_Preview(F) ==
    /\ pc = "preview"
    /\ \E pv \in Choice(F, {"preview"}) :
         files' = IF pv = "none" THEN files \cup {vd_preview_path} ELSE files
    /\ pc' = AfterPreview(frame_idx, total_frames, batch)
    /\ UNCHANGED <<video, names, status_view, pair_vars, del_vars, sample_vars, job, detections,
                   model_cached, model_vars, records, flushes, task_state,
                   open_handles, runs, vd, total_frames, frame_idx,
                   det_counter, batch, use_raw_as_fallback, ffmpeg_result,
                   exc, fail_saved, outcome, view_pc, last_delete>>

\* if len(batch) >= BATCH_SIZE: bulk_create(batch); batch.clear()
T_Flush(F) ==
    /\ pc = "flush"
    /\ \E fault \in Choice(F, {"db_bulk"}) :
         IF fault = "db_bulk" \/ ~job.exists
         THEN /\ Raise("IntegrityError")
              /\ UNCHANGED <<detections, written, flushes, batch, batch_recs>>
         ELSE /\ detections' = detections + batch
              /\ written' = written \o batch_recs
              /\ flushes' = Append(flushes, [kind |-> "threshold", n |-> batch])
              /\ batch' = 0
              /\ batch_recs' = <<>>
              /\ pc' = IF ProgressDue(frame_idx, total_frames)
                       THEN "progress" ELSE "loop"
              /\ exc' = exc
    /\ UNCHANGED <<video, names, status_view, pair_vars, del_vars, sample_vars, job, files,
                   model_cached, model_vars, drawn, task_state,
                   open_handles, runs, vd, total_frames, frame_idx,
                   det_counter, use_raw_as_fallback, ffmpeg_result,
                   fail_saved, outcome, view_pc, last_delete>>

\* The row as a progress save leaves it.
SaveProgress(j, idx, dets) ==
    [j EXCEPT !.processed_frames = idx, !.detections_count = dets]

\* vd.processed_frames = frame_idx; vd.detections_count = det_counter;
\* vd.save(update_fields=[...])
T_Progress(F) ==
    /\ pc = "progress"
    /\ \E fault \in Choice(F, {"db_save"}) :
         IF fault = "db_save" \/ ~job.exists
         THEN Raise("DatabaseError") /\ job' = job
         ELSE /\ job' = SaveProgress(job, frame_idx, det_counter)
              /\ pc' = "notify"
              /\ exc' = exc
    /\ UNCHANGED <<video, names, status_view, pair_vars, del_vars, sample_vars, detections, files,
                   model_cached, model_vars, records, flushes, task_state,
                   open_handles, runs, vd, total_frames, frame_idx,
                   det_counter, batch, use_raw_as_fallback, ffmpeg_result,
                   fail_saved, outcome, view_pc, last_delete>>

\* self.update_state(state="PROGRESS", meta={current, total, percentage})
T_Notify(F) ==
    /\ pc = "notify"
    /\ \E fault \in Choice(F, {"backend"}) :
         IF fault = "backend"
         THEN Raise("ConnectionError") /\ task_state' = task_state
         ELSE /\ task_state' =
                   [state |-> "PROGRESS",
                    meta |-> [current |-> frame_idx,
                              total |-> total_frames,
                              percentage |->
                                Percentage(frame_idx, total_frames)]]
              /\ pc' = "loop"
              /\ exc' = exc
    /\ UNCHANGED <<video, names, status_view, pair_vars, del_vars, sample_vars, job, detections, files,
                   model_cached, model_vars, records, flushes,
                   open_handles, runs, vd, total_frames, frame_idx,
                   det_counter, batch, use_raw_as_fallback, ffmpeg_result,
                   fail_saved, outcome, view_pc, last_delete>>

\* Mutant of T_EndLoop: the loop is left for the transcode at once, the
\* capture and the writer still open and the buffer not written.
T_EndLoop_no_flush(F) ==
    /\ pc = "loop"
    /\ frame_idx >= video.frames
    /\ pc' = "ffmpeg"
    /\ UNCHANGED <<video, names, status_view, pair_vars, del_vars, sample_vars, job, files, model_cached,
                   model_vars, batch_recs, drawn, runs, vd,
                   total_frames, frame_idx, det_counter, batch,
                   use_raw_as_fallback, ffmpeg_result, fail_saved,
                   task_state, outcome, view_pc, last_delete,
                   open_handles, exc, detections, flushes, written>>

\* cap.read() returns no frame: leave the loop, release capture and
\* writer, flush what is left in the buffer (the list is not cleared).
T_EndLoop(F) ==
    /\ pc = "loop"
    /\ frame_idx >= video.frames
    /\ open_handles' = open_handles \ {"cap", "writer"}
    /\ \E fault \in Choice(F, {"db_bulk"}) :
         IF batch > 0
         THEN IF fault = "db_bulk" \/ ~job.exists
              THEN /\ Raise("IntegrityError")
                   /\ UNCHANGED <<detections, flushes, written>>
              ELSE /\ detections' = detections + batch
                   /\ written' = written \o batch_recs
                   /\ flushes' = Append(flushes, [kind |-> "final", n |-> batch])
                   /\ pc' = "ffmpeg"
                   /\ exc' = exc
         ELSE /\ pc' = "ffmpeg"
              /\ exc' = exc
              /\ UNCHANGED <<detections, flushes, written>>
    /\ UNCHANGED <<video, names, status_view, pair_vars, del_vars, sample_vars, job, files, model_cached,
                   model_vars, batch_recs, drawn, runs, vd,
                   total_frames, frame_idx, det_counter, batch,
                   use_raw_as_fallback, ffmpeg_result, fail_saved,
                   task_state, outcome, view_pc, last_delete>>

\* subprocess.run(ffmpeg ..., check=True): on success the final file is
\* there; FileNotFoundError and CalledProcessError select the raw file;
\* any other error propagates.  ffmpeg cannot succeed on a raw file that
\* is not there.
T_Ffmpeg(F) ==
    /\ pc = "ffmpeg"
    /\ \E r \in Choice(F, {"ffmpeg_absent", "ffmpeg_nonzero", "ffmpeg_oserror"}) :
         LET res == IF r = "none" /\ vd_raw_path \notin files
                    THEN "ffmpeg_nonzero" ELSE r
         IN  /\ ffmpeg_result' = IF res = "none" THEN "ok" ELSE res
             /\ CASE res = "none" ->
                       /\ files' = files \cup {vd_final_path}
                       /\ use_raw_as_fallback' = FALSE
                       /\ pc' = "unlink"
                       /\ exc' = exc
                  [] res \in {"ffmpeg_absent", "ffmpeg_nonzero"} ->
                       /\ files' = files
                       /\ use_raw_as_fallback' = TRUE
                       /\ pc' = "finalize"
                       /\ exc' = exc
                  [] OTHER ->
                       /\ Raise("PermissionError")
                       /\ UNCHANGED <<files, use_raw_as_fallback>>
    /\ UNCHANGED <<video, names, status_view, pair_vars, del_vars, sample_vars, job, detections,
                   model_cached, model_vars, records, open_handles, runs, vd,
                   total_frames, frame_idx, det_counter, batch,
                   fail_saved, flushes,
                   task_state, outcome, view_pc, last_delete>>

\* raw_path.unlink(missing_ok=True) after a successful transcode; what
\* it raises is logged and dropped.
T_Unlink(F) ==
    /\ pc = "unlink"
    /\ \E u \in Choice(F, {"unlink"}) :
         files' = IF u = "none" THEN files \ {vd_raw_path} ELSE files
    /\ pc' = "finalize"
    /\ UNCHANGED <<video, names, status_view, pair_vars, del_vars, sample_vars, job, detections,
                   model_cached, model_vars, records, open_handles, runs, vd,
                   total_frames, frame_idx, det_counter, batch,
                   use_raw_as_fallback, ffmpeg_result, exc,
                   fail_saved, flushes,
                   task_state, outcome, view_pc, last_delete>>

\* The row as the final save leaves it.
Finalize(j, rel, frames, dets) ==
    [j EXCEPT !.processed_video = rel, !.status = "completed",
              !.processed_frames = frames, !.detections_count = dets]

\* The final save of the record.
T_Finalize(F) ==
    /\ pc = "finalize"
    /\ \E fault \in Choice(F, {"db_save"}) :
         IF fault = "db_save" \/ ~job.exists
         THEN Raise("DatabaseError") /\ job' = job
         ELSE /\ job' = Finalize(job,
                                 final_rel(UserId, JobId, use_raw_as_fallback),
                                 frame_idx, det_counter)
              /\ pc' = "return"
              /\ exc' = exc
    /\ UNCHANGED <<video, names, status_view, pair_vars, del_vars, sample_vars, detections, files,
                   model_cached, model_vars, records, open_handles, runs, vd,
                   total_frames, frame_idx, det_counter, batch,
                   use_raw_as_fallback, ffmpeg_result, fail_saved, flushes,
                   task_state, outcome, view_pc, last_delete>>

\* return {"status": "completed", "detections": ..., "frames": ...}: the
\* worker stores the summary as the result of the task.
T_Return ==
    /\ pc = "return"
    /\ task_state' = [state |-> "SUCCESS",
                      meta |-> [status |-> "completed",
                                detections |-> det_counter,
                                frames |-> frame_idx]]
    /\ outcome' = "returned"
    /\ pc' = "idle"
    /\ NoLocals
    /\ UNCHANGED <<video, names, status_view, pair_vars, del_vars, sample_vars, job, detections, files,
                   model_cached, model_vars, written, drawn,
                   runs, flushes, view_pc, last_delete>>

\* The row as the failure path's save leaves it.
MarkFailed(j, e) == [j EXCEPT !.status = "failed", !.error_message = e]

\* What the failure path's read and save leave alone.
U_except ==
    UNCHANGED <<video, names, status_view, pair_vars, del_vars, sample_vars,
                detections, files, model_cached, model_vars, records,
                open_handles, runs, total_frames, frame_idx, det_counter,
                batch, use_raw_as_fallback, ffmpeg_result, exc, flushes,
                task_state, outcome, view_pc, last_delete>>

\* vd.status = "failed"; vd.error_message = str(e); vd.save(update_fields=
\* [...]) inside the inner try: what the save raises (a database error, or
\* no row to update) is logged and dropped.
FailSave(F) ==
    \E s \in Choice(F, {"db_save"}) :
        LET ok == s = "none" /\ job.exists
        IN  /\ job' = IF ok THEN MarkFailed(job, exc) ELSE job
            /\ fail_saved' = ok

\* except Exception as e, up to its first database call: when the first
\* get never returned, fetch the row (the save follows as a step of its
\* own); otherwise persist failed and str(e).  Anything the inner try
\* raises is logged and dropped.
T_Except(F) ==
    /\ pc = "except"
    /\ IF vd
       THEN /\ FailSave(F)
            /\ vd' = vd
            /\ pc' = "report"
       ELSE \E g \in Choice(F, {"db_get"}) :
              /\ vd' = (g = "none" /\ job.exists)
              /\ pc' = IF vd' THEN "fail_save" ELSE "report"
              /\ UNCHANGED <<job, fail_saved>>
    /\ U_except

\* The save of the failure path when the except clause had to read the
\* row first: vd.save(update_fields=["status", "error_message",
\* "updated_at"]), inside the same inner try.
T_FailSave(F) ==
    /\ pc = "fail_save"
    /\ FailSave(F)
    /\ vd' = vd
    /\ pc' = "report"
    /\ U_except

\* self.update_state(state=FAILURE, meta={"error": str(e)}), outside
\* every try: when the write to the result backend raises, the exception
\* leaves the task and ends the run.
T_Report(F) ==
    /\ pc = "report"
    /\ \E fault \in Choice(F, {"backend"}) :
         IF fault = "backend"
         THEN /\ outcome' = "raised:ConnectionError"
              /\ pc' = "idle"
              /\ NoLocals
              /\ task_state' = task_state
         ELSE /\ task_state' = [state |-> "FAILURE", meta |-> [error |-> exc]]
              /\ pc' = "ignore"
              /\ UNCHANGED <<outcome, locals>>
    /\ UNCHANGED <<video, names, status_view, pair_vars, del_vars, sample_vars, job, detections, files,
                   model_cached, model_vars, written, drawn,
                   runs, flushes, view_pc, last_delete>>

\* Mutant of T_Ignore: the failure path writes the buffered records
\* before it ends.
T_Ignore_flushing ==
    /\ pc = "ignore"
    /\ outcome' = "ignored"
    /\ pc' = "idle"
    /\ NoLocals
    /\ detections' = IF job.exists THEN detections + batch ELSE detections
    /\ UNCHANGED <<video, names, status_view, pair_vars, del_vars, sample_vars, job, files,
                   model_cached, model_vars, written, drawn, task_state,
                   runs, flushes, view_pc, last_delete>>

\* raise Ignore()
T_Ignore ==
    /\ pc = "ignore"
    /\ outcome' = "ignored"
    /\ pc' = "idle"
    /\ NoLocals
    /\ UNCHANGED <<video, names, status_view, pair_vars, del_vars, sample_vars, job, detections, files,
                   model_cached, model_vars, written, drawn, task_state,
                   runs, flushes, view_pc, last_delete>>

\* The states the worker's parent process can leave in the job-status
\* channel for a run whose process was killed: nothing new, or the error
\* it recorded for the lost or timed-out process.
KilledStates(ts) ==
    {ts, [state |-> "FAILURE", meta |-> [error |-> "TimeLimitExceeded"]]}

\* Mutant of T_Kill: the kill is handled like an exception and failed is
\* persisted.
T_Kill_handled ==
    /\ pc # "idle"
    /\ pc' = "idle"
    /\ outcome' = "killed"
    /\ NoLocals
    /\ model_cached' = FALSE
    /\ loads' = 0
    /\ class_color_map' = EmptyMap
    /\ task_state' \in KilledStates(task_state)
    /\ job' = IF job.exists THEN MarkFailed(job, "TimeLimitExceeded") ELSE job
    /\ UNCHANGED <<video, names, status_view, pair_vars, del_vars, sample_vars,
                   detections, files, written, drawn, runs, flushes,
                   view_pc, last_delete>>

\* The process that executes the run is killed (the hard time limit of
\* CELERY_TASK_TIME_LIMIT, or any other kill): no line of the task runs
\* any more, its locals, its handles and the model cache of the process
\* are gone; what it persisted stays.
T_Kill ==
    /\ pc # "idle"
    /\ pc' = "idle"
    /\ outcome' = "killed"
    /\ NoLocals
    /\ model_cached' = FALSE
    /\ loads' = 0
    /\ class_color_map' = EmptyMap
    /\ task_state' \in KilledStates(task_state)
    /\ UNCHANGED <<video, names, status_view, pair_vars, del_vars, sample_vars, job,
                   detections, files, written, drawn, runs, flushes,
                   view_pc, last_delete>>

(***************************************************************************)
(* The web layer.                                                          *)
(***************************************************************************)

\* The JSON check_video_status answers for a row.
StatusData(j) ==
    [code |-> "200", id |-> j.id, status |-> j.status,
     progress |-> progress_percentage(j),
     processed_frames |-> j.processed_frames,
     total_frames |-> j.total_frames,
     detections_count |-> j.detections_count,
     processed_video_url |->
         IF j.status = "completed" /\ j.processed_video # NoFile
         THEN j.processed_video ELSE NoFile,
     error |->
         IF j.status = "completed" /\ j.processed_video # NoFile THEN None
         ELSE IF j.status = "failed"
              THEN (IF j.error_message \in {None, ""}
                    THEN "Errore sconosciuto" ELSE j.error_message)
              ELSE None]

\* check_video_status(request, video_id) by the owner: 404 when the row
\* is not there, else the row's status and counters; nothing is written.
V_CheckStatus ==
    /\ status_view' = IF job.exists THEN StatusData(job) ELSE [code |-> "404"]
    /\ UNCHANGED <<video, names, pair_vars, del_vars, sample_vars, job, detections,
                   files, model_cached, model_vars, records, open_handles,
                   pc, runs, vd, total_frames, frame_idx, det_counter, batch,
                   use_raw_as_fallback, ffmpeg_result, exc, fail_saved,
                   flushes, task_state, outcome, view_pc, last_delete>>

\* Mutant of V_SaveTaskId: obj.save() without update_fields, which writes
\* every field of the view's object, the row as the view created it.
V_SaveTaskId_full ==
    /\ view_pc = "submitted"
    /\ job' = IF job.exists THEN [NewJob EXCEPT !.task_id = TaskId] ELSE job
    /\ view_pc' = "done"
    /\ UNCHANGED <<video, names, status_view, pair_vars, del_vars, sample_vars, detections, files,
                   model_cached, model_vars, records, open_handles,
                   pc, runs, vd,
                   total_frames, frame_idx, det_counter, batch,
                   use_raw_as_fallback, ffmpeg_result, exc, fail_saved,
                   flushes, task_state, outcome, last_delete>>

\* obj.task_id = task.id; obj.save(update_fields=["task_id"])
V_SaveTaskId ==
    /\ view_pc = "submitted"
    /\ job' = IF job.exists THEN [job EXCEPT !.task_id = TaskId] ELSE job
    /\ view_pc' = "done"
    /\ UNCHANGED <<video, names, status_view, pair_vars, del_vars, sample_vars, detections, files,
                   model_cached, model_vars, records, open_handles,
                   pc, runs, vd,
                   total_frames, frame_idx, det_counter, batch,
                   use_raw_as_fallback, ffmpeg_result, exc, fail_saved,
                   flushes, task_state, outcome, last_delete>>

\* What a step of the delete_video request leaves alone: the run of the
\* task, the model and the other requests.
U_del ==
    UNCHANGED <<video, names, status_view, pair_vars, sample_vars,
                model_cached, model_vars, records, open_handles, pc, runs,
                vd, total_frames, frame_idx, det_counter, batch,
                use_raw_as_fallback, ffmpeg_result, exc, fail_saved,
                flushes, task_state, outcome, view_pc>>

\* delete_video: video = get_object_or_404(VideoDetection, pk=pk,
\* user=request.user).  The request holds the row as it read it.  One
\* delete request is followed.
W_Read ==
    /\ del_pc = "idle"
    /\ job.exists
    /\ del_pc' = "read"
    /\ del_obj' = [original_video |-> job.original_video,
                   processed_video |-> job.processed_video]
    /\ UNCHANGED <<job, detections, files, last_delete>>
    /\ U_del

\* The file of a field of the object when it is on storage: what
\* "if self.<field> and os.path.isfile(self.<field>.path)" lets through.
FileOf(p, fs) == IF p # NoFile /\ p \in fs THEN {p} ELSE {}

\* try: os.remove(path) except Exception: pass, for the file of one field
\* of the object delete_video read; prev is the account of the removals
\* the request made before.
RemoveField(p, prev, F) ==
    \E failing \in (IF "rm" \in F THEN SUBSET FileOf(p, files) ELSE {{}}) :
        /\ files' = files \ (FileOf(p, files) \ failing)
        /\ last_delete' = [done |-> FALSE,
                           rm_failed |-> prev.rm_failed \cup failing,
                           had |-> prev.had \cup FileOf(p, files),
                           fields |-> {del_obj.original_video,
                                       del_obj.processed_video} \ {NoFile}]

\* VideoDetection.delete, the source file: removed when it is a file; an
\* error of the removal is swallowed.
W_RemoveOriginal(F) ==
    /\ del_pc = "read"
    /\ RemoveField(del_obj.original_video, [rm_failed |-> {}, had |-> {}], F)
    /\ del_pc' = "original_removed"
    /\ del_obj' = del_obj
    /\ UNCHANGED <<job, detections>>
    /\ U_del

\* VideoDetection.delete, the output file: removed when it is a file; an
\* error of the removal is swallowed.
W_RemoveProcessed(F) ==
    /\ del_pc = "original_removed"
    /\ RemoveField(del_obj.processed_video, last_delete, F)
    /\ del_pc' = "removed"
    /\ del_obj' = del_obj
    /\ UNCHANGED <<job, detections>>
    /\ U_del

\* super().delete(): the row is deleted, which cascades to its Detection
\* rows; when the database call raises, the row and its records stay.
W_DeleteRow(F) ==
    /\ del_pc = "removed"
    /\ \E fault \in Choice(F, {"db_delete"}) :
         IF fault = "db_delete"
         THEN UNCHANGED <<job, detections, last_delete>>
         ELSE /\ job' = NoRow
              /\ detections' = 0
              /\ last_delete' = [last_delete EXCEPT !.done = TRUE]
    /\ del_pc' = "done"
    /\ del_obj' = del_obj
    /\ files' = files
    /\ U_del

\* The codes a use_sample_video request can carry: the two of sample_map
\* and one that is not in it.
SampleCodes == {"sample1", "sample2"}
RequestCodes == SampleCodes \cup {"other"}

\* sample_map[code]: the title and the name of the file under
\* MEDIA_ROOT/sample_videos.  The titles of the source hold an EN DASH
\* (U+2013) between "ferroviario" and "Esempio"; a string of this module
\* is ASCII, so the character is written as its escape, \u2013.
sample_title(code) ==
    IF code = "sample1" THEN "Video termico ferroviario \\u2013 Esempio 1"
    ELSE "Video termico ferroviario \\u2013 Esempio 2"
sample_stem(code) == IF code = "sample1" THEN "rail_1" ELSE "rail_2"
sample_path(code) == <<"sample_videos", sample_stem(code) \o ".mp4">>
SamplePaths == {sample_path(code) : code \in SampleCodes}

\* Mutant of available_names: the name is used as it is, whatever is
\* stored under it.
available_names_overwriting(fs, user_id, stem) ==
    {original_upload_path(user_id, stem \o ".mp4")}

\* The names storage.save can store a file stem.mp4 of a user under: the
\* requested one when it is free, else the stem with a suffix that makes
\* a free name.
available_names(fs, user_id, stem) ==
    IF original_upload_path(user_id, stem \o ".mp4") \notin fs
    THEN {original_upload_path(user_id, stem \o ".mp4")}
    ELSE {original_upload_path(user_id, stem \o "_" \o ToString(k) \o ".mp4") :
              k \in 1..MaxSampleJobs} \ fs

\* The row use_sample_video inserts for a copy stored under name; the
\* task id is saved later.
SampleJob(id, code, name) ==
    [title |-> sample_title(code)] @@
    [NewJob EXCEPT !.id = id, !.original_video = name]

\* What the requests on sample jobs leave alone.
U_sample ==
    UNCHANGED <<video, names, status_view, pair_vars, del_vars, job,
                detections, model_cached, model_vars, records, open_handles,
                pc, runs, vd, total_frames, frame_idx, det_counter, batch,
                use_raw_as_fallback, ffmpeg_result, exc, fail_saved, flushes,
                task_state, outcome, view_pc, last_delete>>

\* use_sample_video(request, code), the checks: an unknown code or a
\* missing sample file is answered by a redirect to the upload page; else
\* the request goes on to copy the sample.
U_Check(code) ==
    /\ sample_req.pc = "idle"
    /\ next_id <= MaxSampleJobs
    /\ Cardinality(files \ SamplePaths) < MaxSampleJobs
    /\ IF code \notin SampleCodes
       THEN response' = "invalid" /\ sample_req' = sample_req
       ELSE IF sample_path(code) \notin files
       THEN response' = "unavailable" /\ sample_req' = sample_req
       ELSE /\ response' = "none"
            /\ sample_req' = [NoRequest EXCEPT !.pc = "store", !.code = code]
    /\ UNCHANGED <<files, sample_rows, next_id, queued, sample_del, sample_log>>
    /\ U_sample

\* vd = VideoDetection(user, title); sample_path.open("rb");
\* vd.original_video.save(name, File(f), ...), the storage part: the
\* bytes of the sample are stored under a free name of the user's
\* directory.  A sample that has gone since the check makes open raise.
U_Store ==
    /\ sample_req.pc = "store"
    /\ IF sample_path(sample_req.code) \notin files
       THEN /\ response' = "error"
            /\ sample_req' = NoRequest
            /\ files' = files
       ELSE \E name \in available_names(files, UserId,
                                        sample_stem(sample_req.code)) :
              /\ files' = files \cup {name}
              /\ sample_req' = [sample_req EXCEPT !.pc = "insert",
                                                  !.name = name]
              /\ response' = response
    /\ UNCHANGED <<sample_rows, next_id, queued, sample_del, sample_log>>
    /\ U_sample

\* vd.original_video.save(..., save=True), the row: it is inserted with
\* the next id; when the insert raises the request ends with an error and
\* the stored copy stays.
U_Insert(F) ==
    /\ sample_req.pc = "insert"
    /\ \E fault \in Choice(F, {"db_save"}) :
         IF fault = "db_save"
         THEN /\ response' = "error"
              /\ sample_req' = NoRequest
              /\ UNCHANGED <<sample_rows, next_id>>
         ELSE /\ sample_rows' = sample_rows \cup
                                  {SampleJob(next_id, sample_req.code,
                                             sample_req.name)}
              /\ next_id' = next_id + 1
              /\ sample_req' = [sample_req EXCEPT !.pc = "delay",
                                                  !.id = next_id]
              /\ response' = response
    /\ UNCHANGED <<files, queued, sample_del, sample_log>>
    /\ U_sample

\* task = process_video_detection.delay(vd.id): the task is submitted
\* for the new row; when the broker call raises the request ends with an
\* error.
U_Delay(F) ==
    /\ sample_req.pc = "delay"
    /\ \E fault \in Choice(F, {"backend"}) :
         IF fault = "backend"
         THEN /\ response' = "error"
              /\ sample_req' = NoRequest
              /\ queued' = queued
         ELSE /\ queued' = queued \cup {sample_req.id}
              /\ sample_req' = [sample_req EXCEPT !.pc = "save_task"]
              /\ response' = response
    /\ UNCHANGED <<files, sample_rows, next_id, sample_del, sample_log>>
    /\ U_sample

\* vd.task_id = task.id; vd.save(update_fields=["task_id"]) and the
\* redirect to the detail page; the save raises when the row has been
\* deleted meanwhile.
U_SaveTaskId(F) ==
    /\ sample_req.pc = "save_task"
    /\ \E fault \in Choice(F, {"db_save"}) :
         IF fault = "db_save" \/ \A r \in sample_rows : r.id # sample_req.id
         THEN /\ response' = "error"
              /\ sample_rows' = sample_rows
         ELSE /\ sample_rows' =
                   {IF r.id = sample_req.id
                    THEN [r EXCEPT !.task_id = "task" \o ToString(r.id)]
                    ELSE r : r \in sample_rows}
              /\ response' = "detail"
    /\ sample_req' = NoRequest
    /\ UNCHANGED <<files, next_id, queued, sample_del, sample_log>>
    /\ U_sample

\* delete_video on a job use_sample_video made: get_object_or_404 reads
\* the row r.
S_Read(r) ==
    /\ sample_del.pc = "idle"
    /\ r \in sample_rows
    /\ sample_del' = [pc |-> "original", obj |-> r]
    /\ sample_log' = [first |-> IF sample_log.first = 0 THEN next_id
                                ELSE sample_log.first,
                      ids |-> sample_log.ids \cup {r.id}]
    /\ UNCHANGED <<files, sample_rows, next_id, queued, response, sample_req>>
    /\ U_sample

\* try: os.remove(path) except Exception: pass, for the file of one field
\* of the object the request read.
S_RemoveField(p, F) ==
    \E failing \in (IF "rm" \in F THEN SUBSET FileOf(p, files) ELSE {{}}) :
        files' = files \ (FileOf(p, files) \ failing)

\* VideoDetection.delete, the source file of the object.
S_RemoveOriginal(F) ==
    /\ sample_del.pc = "original"
    /\ S_RemoveField(sample_del.obj.original_video, F)
    /\ sample_del' = [sample_del EXCEPT !.pc = "processed"]
    /\ UNCHANGED <<sample_rows, next_id, queued, response, sample_req,
                   sample_log>>
    /\ U_sample

\* VideoDetection.delete, the output file of the object.
S_RemoveProcessed(F) ==
    /\ sample_del.pc = "processed"
    /\ S_RemoveField(sample_del.obj.processed_video, F)
    /\ sample_del' = [sample_del EXCEPT !.pc = "row"]
    /\ UNCHANGED <<sample_rows, next_id, queued, response, sample_req,
                   sample_log>>
    /\ U_sample

\* super().delete(): the row of the object's id is deleted; when the
\* database call raises it stays.
S_DeleteRow(F) ==
    /\ sample_del.pc = "row"
    /\ \E fault \in Choice(F, {"db_delete"}) :
         sample_rows' = IF fault = "db_delete" THEN sample_rows
                        ELSE {r \in sample_rows : r.id # sample_del.obj.id}
    /\ sample_del' = NoSampleDelete
    /\ UNCHANGED <<files, next_id, queued, response, sample_req, sample_log>>
    /\ U_sample

\* No upload has been made; any of the sample files is on storage.
InitSample ==
    \E fs \in SUBSET SamplePaths :
        InitState({CHOOSE v \in Videos : v.frames = 1 /\ v.reported = 1
                                          /\ v.dets = {0}},
                  {DefaultNames}, NoRow, fs)

(***************************************************************************)
(* Several jobs side by side.  Each job has its row, its Detection rows,   *)
(* the view that submitted it and its run, a worker executing the task    *)
(* for it; storage is shared.  The source of the first job has PairFrames *)
(* frames, that of every other job PairShort, all of PairBoxes boxes       *)
(* each.  The steps are those of the task, the view and the deletion       *)
(* above, taken for the job they belong to.                                *)
(***************************************************************************)
PairUsers == {"1", "2"}

\* Everything but the jobs side by side and storage.
one_job_vars ==
    <<video, names, status_view, sample_vars, job, detections, model_cached,
      model_vars, records, open_handles, pc, runs, vd, total_frames,
      frame_idx, det_counter, batch, use_raw_as_fallback, ffmpeg_result,
      exc, fail_saved, flushes, task_state, outcome, view_pc, last_delete,
      del_vars>>

\* The run of a job that no worker has started: its local variables
\* (vd = None) and the state published under its task id.
QueuedRun ==
    [pc |-> "queued", vd |-> FALSE, raw |-> NoFile, final |-> NoFile,
     preview |-> NoFile, total_frames |-> 0, frame_idx |-> 0,
     det_counter |-> 0, batch |-> 0, use_raw_as_fallback |-> FALSE,
     exc |-> "", state |-> "PENDING"]

\* A run that has ended: its local variables are gone; the names of the
\* files it wrote are kept for reference.
EndedRun(r, how, state) ==
    [QueuedRun EXCEPT !.pc = how, !.raw = r.raw, !.final = r.final,
                      !.preview = r.preview, !.state = state]

\* The number of frames of the source of job i.
PairLength(i) == IF i = 1 THEN PairFrames ELSE PairShort

\* The upload of job id by user u.
PairUpload(u, id) == original_upload_path(u, "clip" \o id \o ".mp4")

\* The row form_valid has saved for job id of user u when it submits the
\* task: the task id is saved afterwards.
PairJob(u, id) ==
    [NewJob EXCEPT !.id = id, !.user_id = u,
                   !.original_video = PairUpload(u, id)]

\* What is left of the row of a job after its deletion.
PairNoRow(row) == [NoRow EXCEPT !.id = row.id, !.user_id = row.user_id]

\* The faults a step can meet: any of F while fewer than MaxPairFaults
\* have been injected, none after.
PairChoice(F, kinds) ==
    Choice(IF pair_faults < MaxPairFaults THEN F ELSE NoFaults, kinds)

\* The fault a step met is counted.
Counted(fault) ==
    pair_faults' = IF fault = "none" THEN pair_faults ELSE pair_faults + 1

\* The run of job i is at position p.
RunAt(i, p) == i \in DOMAIN pair_run /\ pair_run[i].pc = p

\* The run of job i moves on with the locals r.
RunStep(i, r) == pair_run' = [pair_run EXCEPT ![i] = r]

\* The run of job i goes to its except clause with the exception e.
RunRaise(i, e) ==
    RunStep(i, [pair_run[i] EXCEPT !.pc = "except", !.exc = e])

\* The row of job i is saved as row.
RowSave(i, row) == pair_rows' = [pair_rows EXCEPT ![i] = row]

\* A save of the row of job i by its run: it raises when the database
\* call fails or the row is gone; else the row is saved as row and the
\* run goes on at position next.
RunSave(i, F, row, next) ==
    \E fault \in PairChoice(F, {"db_save"}) :
        /\ Counted(fault)
        /\ IF fault = "db_save" \/ ~pair_rows[i].exists
           THEN RunRaise(i, "DatabaseError") /\ pair_rows' = pair_rows
           ELSE RowSave(i, row) /\ RunStep(i, [pair_run[i] EXCEPT !.pc = next])

\* bulk_create of the buffer of the run of job i: it raises when the
\* database call fails or the row is gone; else the records are written
\* and the run goes on with the locals r.
RunFlush(i, F, r) ==
    \E fault \in PairChoice(F, {"db_bulk"}) :
        /\ Counted(fault)
        /\ IF fault = "db_bulk" \/ ~pair_rows[i].exists
           THEN RunRaise(i, "IntegrityError") /\ pair_dets' = pair_dets
           ELSE /\ pair_dets' = [pair_dets EXCEPT ![i] = @ + pair_run[i].batch]
                /\ RunStep(i, r)

\* What a step of a run leaves alone besides what it names.
U_run == UNCHANGED <<pair_view, pair_del, one_job_vars>>

\* form_valid, after the task was submitted: obj.task_id = task.id;
\* obj.save(update_fields=["task_id"]) for job i.
P_SaveTaskId(i) ==
    /\ i \in DOMAIN pair_view
    /\ pair_view[i] = "submitted"
    /\ pair_view' = [pair_view EXCEPT ![i] = "done"]
    /\ RowSave(i, IF pair_rows[i].exists
                  THEN [pair_rows[i] EXCEPT !.task_id = "task" \o pair_rows[i].id]
                  ELSE pair_rows[i])
    /\ UNCHANGED <<pair_dets, pair_run, pair_del, pair_faults, files,
                   one_job_vars>>

\* A worker starts executing the task for job i: STARTED is published
\* under its task id.
P_Invoke(i) ==
    /\ RunAt(i, "queued")
    /\ RunStep(i, [QueuedRun EXCEPT !.pc = "get", !.state = "STARTED"])
    /\ UNCHANGED <<pair_rows, pair_dets, pair_faults, files>>
    /\ U_run

\* vd = VideoDetection.objects.get(id=video_detection_id)
P_Get(i, F) ==
    /\ RunAt(i, "get")
    /\ \E fault \in PairChoice(F, {"db_get"}) :
         /\ Counted(fault)
         /\ IF fault = "db_get" THEN RunRaise(i, "OperationalError")
            ELSE IF ~pair_rows[i].exists THEN RunRaise(i, "DoesNotExist")
            ELSE RunStep(i, [pair_run[i] EXCEPT !.pc = "mark", !.vd = TRUE])
    /\ UNCHANGED <<pair_rows, pair_dets, files>>
    /\ U_run

\* The first save: processing, counters zeroed.
P_Mark(i, F) ==
    /\ RunAt(i, "mark")
    /\ RunSave(i, F, MarkProcessing(pair_rows[i]), "load_model")
    /\ UNCHANGED <<pair_dets, files>>
    /\ U_run

\* model, device = _load_model(), in the worker process of the run.
P_LoadModel(i, F) ==
    /\ RunAt(i, "load_model")
    /\ \E fault \in PairChoice(F, {"model"}) :
         /\ Counted(fault)
         /\ IF fault = "model" THEN RunRaise(i, "FileNotFoundError")
            ELSE RunStep(i, [pair_run[i] EXCEPT !.pc = "open"])
    /\ UNCHANGED <<pair_rows, pair_dets, files>>
    /\ U_run

\* The capture opened on the upload of the job and probed, total_frames
\* read.
P_Open(i) ==
    /\ RunAt(i, "open")
    /\ IF PairUpload(pair_rows[i].user_id, pair_rows[i].id) \notin files
       THEN RunRaise(i, "VideoOpenError")
       ELSE RunStep(i, [pair_run[i] EXCEPT !.pc = "save_total",
                                           !.total_frames = PairLength(i)])
    /\ UNCHANGED <<pair_rows, pair_dets, pair_faults, files>>
    /\ U_run

\* vd.total_frames = total_frames; vd.save(update_fields=[...])
P_SaveTotal(i, F) ==
    /\ RunAt(i, "save_total")
    /\ RunSave(i, F, SaveTotal(pair_rows[i], pair_run[i].total_frames),
               "writer")
    /\ UNCHANGED <<pair_dets, files>>
    /\ U_run

\* The paths of the outputs built from the user and the id of vd, the
\* directories made, the writer opened on the raw path, the counters and
\* the buffer initialised.
P_Writer(i, F) ==
    /\ RunAt(i, "writer")
    /\ LET row == pair_rows[i]
       IN  \E fault \in PairChoice(F, {"mkdir", "writer"}) :
             /\ Counted(fault)
             /\ IF fault = "mkdir"
                THEN RunRaise(i, "PermissionError") /\ files' = files
                ELSE IF fault = "writer"
                THEN RunRaise(i, "WriterInitError") /\ files' = files
                ELSE /\ RunStep(i, [pair_run[i] EXCEPT
                                      !.pc = "loop",
                                      !.raw = raw_path(row.user_id, row.id),
                                      !.final = final_path(row.user_id, row.id),
                                      !.preview = preview_path(row.user_id,
                                                               row.id),
                                      !.frame_idx = 0, !.det_counter = 0,
                                      !.batch = 0])
                     /\ files' = files \cup {raw_path(row.user_id, row.id)}
    /\ UNCHANGED <<pair_rows, pair_dets>>
    /\ U_run

\* One frame of the run of job i: read, predicted, its boxes buffered and
\* drawn, the frame written to the raw file; model.predict can raise.
P_Frame(i, F) ==
    /\ RunAt(i, "loop")
    /\ pair_run[i].frame_idx < PairLength(i)
    /\ LET r == pair_run[i]
           idx1 == r.frame_idx + 1
           b1 == r.batch + PairBoxes
       IN  \E fault \in PairChoice(F, {"predict"}) :
             /\ Counted(fault)
             /\ IF fault = "predict" THEN RunRaise(i, "InferenceError")
                ELSE RunStep(i, [r EXCEPT
                                   !.frame_idx = idx1,
                                   !.det_counter = r.det_counter + PairBoxes,
                                   !.batch = b1,
                                   !.pc = AfterFrame(idx1, r.total_frames, b1)])
    /\ UNCHANGED <<pair_rows, pair_dets, files>>
    /\ U_run

\* try cv2.imwrite(preview_path, frame); what it raises is dropped.
P_Preview(i, F) ==
    /\ RunAt(i, "preview")
    /\ LET r == pair_run[i]
       IN  /\ \E pv \in PairChoice(F, {"preview"}) :
                /\ Counted(pv)
                /\ files' = IF pv = "none" THEN files \cup {r.preview} ELSE files
           /\ RunStep(i, [r EXCEPT !.pc = AfterPreview(r.frame_idx,
                                                       r.total_frames,
                                                       r.batch)])
    /\ UNCHANGED <<pair_rows, pair_dets>>
    /\ U_run

\* Detection.objects.bulk_create(batch); batch.clear()
P_Flush(i, F) ==
    /\ RunAt(i, "flush")
    /\ LET r == pair_run[i]
       IN  RunFlush(i, F, [r EXCEPT !.batch = 0,
                                    !.pc = IF ProgressDue(r.frame_idx,
                                                          r.total_frames)
                                           THEN "progress" ELSE "loop"])
    /\ UNCHANGED <<pair_rows, files>>
    /\ U_run

\* The progress save of the run of job i.
P_Progress(i, F) ==
    /\ RunAt(i, "progress")
    /\ RunSave(i, F, SaveProgress(pair_rows[i], pair_run[i].frame_idx,
                                  pair_run[i].det_counter), "notify")
    /\ UNCHANGED <<pair_dets, files>>
    /\ U_run

\* self.update_state(state="PROGRESS", ...) under the task id of job i.
P_Notify(i, F) ==
    /\ RunAt(i, "notify")
    /\ \E fault \in PairChoice(F, {"backend"}) :
         /\ Counted(fault)
         /\ IF fault = "backend" THEN RunRaise(i, "ConnectionError")
            ELSE RunStep(i, [pair_run[i] EXCEPT !.pc = "loop",
                                                !.state = "PROGRESS"])
    /\ UNCHANGED <<pair_rows, pair_dets, files>>
    /\ U_run

\* The loop is left: capture and writer released, the rest of the buffer
\* written (the list is not cleared).
P_EndLoop(i, F) ==
    /\ RunAt(i, "loop")
    /\ pair_run[i].frame_idx = PairLength(i)
    /\ IF pair_run[i].batch > 0
       THEN RunFlush(i, F, [pair_run[i] EXCEPT !.pc = "ffmpeg"])
       ELSE /\ RunStep(i, [pair_run[i] EXCEPT !.pc = "ffmpeg"])
            /\ UNCHANGED <<pair_dets, pair_faults>>
    /\ UNCHANGED <<pair_rows, files>>
    /\ U_run

\* subprocess.run(ffmpeg ...): on success the final file is there;
\* FileNotFoundError and CalledProcessError select the raw file; any
\* other error propagates.
P_Ffmpeg(i, F) ==
    /\ RunAt(i, "ffmpeg")
    /\ LET r == pair_run[i]
       IN  \E f \in PairChoice(F, {"ffmpeg_absent", "ffmpeg_nonzero",
                                   "ffmpeg_oserror"}) :
             /\ Counted(f)
             /\ LET res == IF f = "none" /\ r.raw \notin files
                           THEN "ffmpeg_nonzero" ELSE f
                IN  CASE res = "none" ->
                           /\ files' = files \cup {r.final}
                           /\ RunStep(i, [r EXCEPT !.pc = "unlink",
                                                   !.use_raw_as_fallback = FALSE])
                      [] res \in {"ffmpeg_absent", "ffmpeg_nonzero"} ->
                           /\ files' = files
                           /\ RunStep(i, [r EXCEPT !.pc = "finalize",
                                                   !.use_raw_as_fallback = TRUE])
                      [] OTHER ->
                           /\ files' = files
                           /\ RunRaise(i, "PermissionError")
    /\ UNCHANGED <<pair_rows, pair_dets>>
    /\ U_run

\* raw_path.unlink(missing_ok=True); what it raises is dropped.
P_Unlink(i, F) ==
    /\ RunAt(i, "unlink")
    /\ \E u \in PairChoice(F, {"unlink"}) :
         /\ Counted(u)
         /\ files' = IF u = "none" THEN files \ {pair_run[i].raw} ELSE files
    /\ RunStep(i, [pair_run[i] EXCEPT !.pc = "finalize"])
    /\ UNCHANGED <<pair_rows, pair_dets>>
    /\ U_run

\* The final save of the run of job i.
P_Finalize(i, F) ==
    /\ RunAt(i, "finalize")
    /\ LET r == pair_run[i]
           row == pair_rows[i]
       IN  RunSave(i, F, Finalize(row,
                                  final_rel(row.user_id, row.id,
                                            r.use_raw_as_fallback),
                                  r.frame_idx, r.det_counter), "return")
    /\ UNCHANGED <<pair_dets, files>>
    /\ U_run

\* return {...}: the summary is stored under the task id of job i.
P_Return(i) ==
    /\ RunAt(i, "return")
    /\ RunStep(i, EndedRun(pair_run[i], "returned", "SUCCESS"))
    /\ UNCHANGED <<pair_rows, pair_dets, pair_faults, files>>
    /\ U_run

\* The save of the failure path of the run of job i, inside the inner
\* try: what it raises is dropped.
PairFailSave(i, F) ==
    /\ \E s \in PairChoice(F, {"db_save"}) :
         /\ Counted(s)
         /\ RowSave(i, IF s = "none" /\ pair_rows[i].exists
                       THEN MarkFailed(pair_rows[i], pair_run[i].exc)
                       ELSE pair_rows[i])
    /\ RunStep(i, [pair_run[i] EXCEPT !.pc = "report"])

\* except Exception as e, up to its first database call: when the first
\* get never returned, fetch the row; otherwise persist failed and str(e).
P_Except(i, F) ==
    /\ RunAt(i, "except")
    /\ IF pair_run[i].vd
       THEN PairFailSave(i, F)
       ELSE /\ \E g \in PairChoice(F, {"db_get"}) :
                 /\ Counted(g)
                 /\ LET got == g = "none" /\ pair_rows[i].exists
                    IN  RunStep(i, [pair_run[i] EXCEPT
                                      !.vd = got,
                                      !.pc = IF got THEN "fail_save"
                                             ELSE "report"])
            /\ pair_rows' = pair_rows
    /\ UNCHANGED <<pair_dets, files>>
    /\ U_run

\* The save of the failure path when the except clause had to read the
\* row first.
P_FailSave(i, F) ==
    /\ RunAt(i, "fail_save")
    /\ PairFailSave(i, F)
    /\ UNCHANGED <<pair_dets, files>>
    /\ U_run

\* self.update_state(state=FAILURE, ...), outside every try: when it
\* raises, the exception leaves the task.
P_Report(i, F) ==
    /\ RunAt(i, "report")
    /\ \E fault \in PairChoice(F, {"backend"}) :
         /\ Counted(fault)
         /\ IF fault = "backend"
            THEN RunStep(i, EndedRun(pair_run[i], "raised", pair_run[i].state))
            ELSE RunStep(i, [pair_run[i] EXCEPT !.pc = "ignore",
                                                !.state = "FAILURE"])
    /\ UNCHANGED <<pair_rows, pair_dets, files>>
    /\ U_run

\* raise Ignore()
P_Ignore(i) ==
    /\ RunAt(i, "ignore")
    /\ RunStep(i, EndedRun(pair_run[i], "ignored", "FAILURE"))
    /\ UNCHANGED <<pair_rows, pair_dets, pair_faults, files>>
    /\ U_run

\* delete_video on job i: get_object_or_404 reads the row.  One delete
\* request is followed.
P_DelRead(i) ==
    /\ pair_del.pc = "idle"
    /\ i \in DOMAIN pair_rows
    /\ pair_rows[i].exists
    /\ pair_del' = [pc |-> "read", job |-> i,
                    obj |-> [original_video |-> pair_rows[i].original_video,
                             processed_video |-> pair_rows[i].processed_video]]
    /\ UNCHANGED <<pair_rows, pair_dets, pair_run, pair_view, pair_faults,
                   files, one_job_vars>>

\* try: os.remove(path) except Exception: pass, for the file of one field
\* of the object the request read.
PairRemoveField(p, F) ==
    \E failing \in (IF PairChoice(F, {"rm"}) # {"none"}
                     THEN SUBSET FileOf(p, files) ELSE {{}}) :
        /\ files' = files \ (FileOf(p, files) \ failing)
        /\ pair_faults' = IF failing = {} THEN pair_faults
                          ELSE pair_faults + 1

\* VideoDetection.delete, the source file of the object.
P_DelOriginal(F) ==
    /\ pair_del.pc = "read"
    /\ PairRemoveField(pair_del.obj.original_video, F)
    /\ pair_del' = [pair_del EXCEPT !.pc = "original_removed"]
    /\ UNCHANGED <<pair_rows, pair_dets, pair_run, pair_view, one_job_vars>>

\* VideoDetection.delete, the output file of the object.
P_DelProcessed(F) ==
    /\ pair_del.pc = "original_removed"
    /\ PairRemoveField(pair_del.obj.processed_video, F)
    /\ pair_del' = [pair_del EXCEPT !.pc = "removed"]
    /\ UNCHANGED <<pair_rows, pair_dets, pair_run, pair_view, one_job_vars>>

\* super().delete(): the row of the job is deleted, which cascades to
\* its Detection rows; when the database call raises they stay.
P_DelRow(F) ==
    /\ pair_del.pc = "removed"
    /\ \E fault \in PairChoice(F, {"db_delete"}) :
         /\ Counted(fault)
         /\ IF fault = "db_delete"
            THEN UNCHANGED <<pair_rows, pair_dets>>
            ELSE /\ RowSave(pair_del.job, PairNoRow(pair_rows[pair_del.job]))
                 /\ pair_dets' = [pair_dets EXCEPT ![pair_del.job] = 0]
    /\ pair_del' = [pair_del EXCEPT !.pc = "done"]
    /\ UNCHANGED <<pair_run, pair_view, files, one_job_vars>>

\* MaxPairJobs jobs have been uploaded, the first by user 1 and each
\* other by either user, and their tasks submitted: the rows are pending
\* without a task id and storage holds the uploads.
InitTwo ==
    /\ InitOne({CHOOSE v \in Videos : v.frames = 1 /\ v.reported = 1
                                       /\ v.dets = {0}},
               {DefaultNames}, NoRow)
    /\ \E owner \in {o \in [1..MaxPairJobs -> PairUsers] : o[1] = "1"} :
         /\ pair_rows = [i \in 1..MaxPairJobs |->
                           PairJob(owner[i], ToString(i))]
         /\ files = {PairUpload(owner[i], ToString(i)) : i \in 1..MaxPairJobs}
    /\ pair_dets = [i \in 1..MaxPairJobs |-> 0]
    /\ pair_run = [i \in 1..MaxPairJobs |-> QueuedRun]
    /\ pair_view = [i \in 1..MaxPairJobs |-> "submitted"]
    /\ pair_del = NoPairDelete
    /\ pair_faults = 0

(***************************************************************************)
(* Specifications.                                                         *)
(***************************************************************************)
Next ==
    \/ T_Invoke(MaxRuns)
    \/ T_Get(Faults)
    \/ T_MarkProcessing(Faults)
    \/ T_LoadModel(Faults)
    \/ T_Open
    \/ T_SaveTotal(Faults)
    \/ T_Writer(Faults)
    \/ T_Frame(Faults)
    \/ T_Preview(Faults)
    \/ T_Flush(Faults)
    \/ T_Progress(Faults)
    \/ T_Notify(Faults)
    \/ T_EndLoop(Faults)
    \/ T_Ffmpeg(Faults)
    \/ T_Unlink(Faults)
    \/ T_Finalize(Faults)
    \/ T_Return
    \/ T_Except(Faults)
    \/ T_FailSave(Faults)
    \/ T_Report(Faults)
    \/ T_Ignore
    \/ V_SaveTaskId
    \/ W_Read
    \/ W_RemoveOriginal(Faults)
    \/ W_RemoveProcessed(Faults)
    \/ W_DeleteRow(Faults)

Spec == Init /\ [][Next]_vars

\* One fault-free run over a short video with free per-frame detection
\* counts: the batching of detections.
NextBatch ==
    \/ T_Invoke(1)
    \/ T_Get(NoFaults)
    \/ T_MarkProcessing(NoFaults)
    \/ T_LoadModel(NoFaults)
    \/ T_Open
    \/ T_SaveTotal(NoFaults)
    \/ T_Writer(NoFaults)
    \/ T_Frame(NoFaults)
    \/ T_Preview(NoFaults)
    \/ T_Flush(NoFaults)
    \/ T_Progress(NoFaults)
    \/ T_Notify(NoFaults)
    \/ T_EndLoop(NoFaults)
    \/ T_Ffmpeg(NoFaults)
    \/ T_Unlink(NoFaults)
    \/ T_Finalize(NoFaults)
    \/ T_Return

SpecBatch == InitBatch /\ [][NextBatch]_vars

\* The sources of the specification with kills: the short ones, and one
\* long enough for a preview and a progress update every 10th frame.
KillVideos ==
    {v \in Videos :
        \/ v.frames <= MaxKillFrames
        \/ v.frames = PROGRESS_EVERY /\ v.reported = 0 /\ v.dets = {0}}

InitKill == InitWith(KillVideos)

\* Runs that no call fails but that can be killed at any point, started
\* again, polled by the owner and deleted.
NextKill ==
    \/ T_Invoke(MaxRuns)
    \/ T_Get(NoFaults)
    \/ T_MarkProcessing(NoFaults)
    \/ T_LoadModel(NoFaults)
    \/ T_Open
    \/ T_SaveTotal(NoFaults)
    \/ T_Writer(NoFaults)
    \/ T_Frame(NoFaults)
    \/ T_Preview(NoFaults)
    \/ T_Flush(NoFaults)
    \/ T_Progress(NoFaults)
    \/ T_Notify(NoFaults)
    \/ T_EndLoop(NoFaults)
    \/ T_Ffmpeg(NoFaults)
    \/ T_Unlink(NoFaults)
    \/ T_Finalize(NoFaults)
    \/ T_Return
    \/ T_Except(NoFaults)
    \/ T_Report(NoFaults)
    \/ T_Ignore
    \/ T_Kill
    \/ V_SaveTaskId
    \/ V_CheckStatus
    \/ W_Read
    \/ W_RemoveOriginal(NoFaults)
    \/ W_RemoveProcessed(NoFaults)
    \/ W_DeleteRow(NoFaults)

SpecKill == InitKill /\ [][NextKill]_vars

\* Runs that are not killed: any call can fail, the view stores the task
\* id and the owner can delete the job at any time.
NextLive ==
    \/ T_Invoke(MaxRuns)
    \/ T_Get(Faults)
    \/ T_MarkProcessing(Faults)
    \/ T_LoadModel(Faults)
    \/ T_Open
    \/ T_SaveTotal(Faults)
    \/ T_Writer(Faults)
    \/ T_Frame(Faults)
    \/ T_Preview(Faults)
    \/ T_Flush(Faults)
    \/ T_Progress(Faults)
    \/ T_Notify(Faults)
    \/ T_EndLoop(Faults)
    \/ T_Ffmpeg(Faults)
    \/ T_Unlink(Faults)
    \/ T_Finalize(Faults)
    \/ T_Return
    \/ T_Except(Faults)
    \/ T_FailSave(Faults)
    \/ T_Report(Faults)
    \/ T_Ignore
    \/ V_SaveTaskId
    \/ W_Read
    \/ W_RemoveOriginal(Faults)
    \/ W_RemoveProcessed(Faults)
    \/ W_DeleteRow(Faults)

\* The next step of the task function, whatever it is: the worker
\* executes the function it has started, and every call the function
\* makes returns or raises.
TaskStep ==
    \/ T_Get(Faults)
    \/ T_MarkProcessing(Faults)
    \/ T_LoadModel(Faults)
    \/ T_Open
    \/ T_SaveTotal(Faults)
    \/ T_Writer(Faults)
    \/ T_Frame(Faults)
    \/ T_Preview(Faults)
    \/ T_Flush(Faults)
    \/ T_Progress(Faults)
    \/ T_Notify(Faults)
    \/ T_EndLoop(Faults)
    \/ T_Ffmpeg(Faults)
    \/ T_Unlink(Faults)
    \/ T_Finalize(Faults)
    \/ T_Return
    \/ T_Except(Faults)
    \/ T_FailSave(Faults)
    \/ T_Report(Faults)
    \/ T_Ignore

SpecLive == InitKill /\ [][NextLive]_vars /\ WF_vars(TaskStep)

\* The runs of the jobs, the saves of their views and the deletion of one
\* of them, interleaved step by step, with every fault.
NextTwo ==
    \/ \E i \in DOMAIN pair_run : P_SaveTaskId(i)
    \/ \E i \in DOMAIN pair_run : P_Invoke(i)
    \/ \E i \in DOMAIN pair_run : P_Get(i, Faults)
    \/ \E i \in DOMAIN pair_run : P_Mark(i, Faults)
    \/ \E i \in DOMAIN pair_run : P_LoadModel(i, Faults)
    \/ \E i \in DOMAIN pair_run : P_Open(i)
    \/ \E i \in DOMAIN pair_run : P_SaveTotal(i, Faults)
    \/ \E i \in DOMAIN pair_run : P_Writer(i, Faults)
    \/ \E i \in DOMAIN pair_run : P_Frame(i, Faults)
    \/ \E i \in DOMAIN pair_run : P_Preview(i, Faults)
    \/ \E i \in DOMAIN pair_run : P_Flush(i, Faults)
    \/ \E i \in DOMAIN pair_run : P_Progress(i, Faults)
    \/ \E i \in DOMAIN pair_run : P_Notify(i, Faults)
    \/ \E i \in DOMAIN pair_run : P_EndLoop(i, Faults)
    \/ \E i \in DOMAIN pair_run : P_Ffmpeg(i, Faults)
    \/ \E i \in DOMAIN pair_run : P_Unlink(i, Faults)
    \/ \E i \in DOMAIN pair_run : P_Finalize(i, Faults)
    \/ \E i \in DOMAIN pair_run : P_Return(i)
    \/ \E i \in DOMAIN pair_run : P_Except(i, Faults)
    \/ \E i \in DOMAIN pair_run : P_FailSave(i, Faults)
    \/ \E i \in DOMAIN pair_run : P_Report(i, Faults)
    \/ \E i \in DOMAIN pair_run : P_Ignore(i)
    \/ \E i \in DOMAIN pair_run : P_DelRead(i)
    \/ P_DelOriginal(Faults)
    \/ P_DelProcessed(Faults)
    \/ P_DelRow(Faults)

SpecTwo == InitTwo /\ [][NextTwo]_vars

\* The requests for sample videos of one user and the deletion of the
\* jobs they made, step by step; one request of each kind is served at a
\* time.
NextSample ==
    \/ \E code \in RequestCodes : U_Check(code)
    \/ U_Store
    \/ U_Insert(Faults)
    \/ U_Delay(Faults)
    \/ U_SaveTaskId(Faults)
    \/ \E r \in sample_rows : S_Read(r)
    \/ S_RemoveOriginal(Faults)
    \/ S_RemoveProcessed(Faults)
    \/ S_DeleteRow(Faults)

SpecSample == InitSample /\ [][NextSample]_vars

\* One fault-free run with any checkpoint names and boxes of any class:
\* the colors of the boxes.
SpecColor == InitColor /\ [][NextBatch]_vars

(***************************************************************************)
(* Properties.                                                             *)
(***************************************************************************)

\* The run of the task is past its first save and has not ended.
InRun == pc \notin {"idle", "get", "mark"}

AllowedTransitions ==
    {<<"pending", "processing">>, <<"processing", "completed">>,
     <<"processing", "failed">>}

\* C1: the persisted status of a job only ever changes along
\* pending->processing, processing->completed or processing->failed;
\* completed and failed are never left and pending never becomes failed.
C1_StatusTransitions ==
    [][(job.exists /\ job'.exists /\ job'.status # job.status)
         => <<job.status, job'.status>> \in AllowedTransitions]_vars

\* C2: in every persisted state of a job, processed_video is set if and
\* only if status = completed.
C2_OutputIffCompleted ==
    job.exists => ((job.processed_video # NoFile) <=> (job.status = "completed"))

\* C3: whenever the persisted total_frames is known (> 0),
\* processed_frames <= total_frames.
C3_ProcessedWithinTotal ==
    (job.exists /\ job.total_frames > 0)
        => job.processed_frames <= job.total_frames

\* C4: for a job whose persisted status is completed, processed_frames is
\* the number of frames the loop read and detections_count is the number
\* of Detection rows persisted for the job.
C4_CompletedCounts ==
    (job.exists /\ job.status = "completed")
        => /\ job.processed_frames = video.frames
           /\ job.detections_count = detections

\* C5: over one run, after its initial reset, the progress percentage
\* (the one of the PROGRESS updates and the one computed from the row)
\* never decreases and never exceeds 100.
C5_ProgressMonotoneBounded ==
    /\ [](job.exists => progress_percentage(job) <= 100)
    /\ [](task_state.state = "PROGRESS" => task_state.meta.percentage <= 100)
    /\ [][(InRun /\ job.exists /\ job'.exists)
            => progress_percentage(job') >= progress_percentage(job)]_vars
    /\ [][(task_state.state = "PROGRESS" /\ task_state'.state = "PROGRESS")
            => task_state'.meta.percentage >= task_state.meta.percentage]_vars

RECURSIVE SumN(_)
\* Total number of records written by a sequence of flushes.
SumN(fl) == IF fl = <<>> THEN 0 ELSE fl[1].n + SumN(Tail(fl))

CeilDiv(a, b) == (a + b - 1) \div b

\* A run has returned its summary, of N detections.
Returned == outcome = "returned" /\ task_state.state = "SUCCESS"

\* C6 as stated: every threshold-triggered flush writes exactly 512
\* records and a job producing N detections performs ceil(N/512) flushes,
\* whatever the distribution of the detections over the frames.
C6_ExactBatches ==
    Returned =>
        /\ \A i \in 1..Len(flushes) :
             flushes[i].kind = "threshold" => flushes[i].n = BATCH_SIZE
        /\ Len(flushes) = CeilDiv(task_state.meta.detections, BATCH_SIZE)

\* C6 amended: the buffer is tested once per frame, so a threshold flush
\* writes the whole buffer, at least 512 records; the final flush writes
\* the non-empty rest, fewer than 512 records, and is the last one; a
\* completed job of N detections has persisted all N in at most
\* ceil(N/512) flushes, and in exactly ceil(N/512) when every threshold
\* flush was of exactly 512 (N = 1025 as 512, 512, 1).
C6_Batches ==
    Returned =>
        /\ SumN(flushes) = task_state.meta.detections
        /\ detections = task_state.meta.detections
        /\ Len(flushes) <= CeilDiv(task_state.meta.detections, BATCH_SIZE)
        /\ \A i \in 1..Len(flushes) :
             /\ flushes[i].kind = "threshold" => flushes[i].n >= BATCH_SIZE
             /\ flushes[i].kind = "final" =>
                  /\ i = Len(flushes)
                  /\ flushes[i].n > 0
                  /\ flushes[i].n < BATCH_SIZE
        /\ (\A i \in 1..Len(flushes) :
                flushes[i].kind = "threshold" => flushes[i].n = BATCH_SIZE)
             => Len(flushes) = CeilDiv(task_state.meta.detections, BATCH_SIZE)

\* C6 witness: 1025 detections persisted by flushes of 512, 512 and 1.
C6_Witness ==
    /\ Returned
    /\ detections = 1025
    /\ flushes = <<[kind |-> "threshold", n |-> 512],
                   [kind |-> "threshold", n |-> 512],
                   [kind |-> "final", n |-> 1]>>

\* C7: an exception in a run passes control to the failure path and never
\* to the return; the failure path moves on to the report whether or not
\* its save went through, and when it went through the row holds failed
\* and str(e); the report publishes FAILURE with str(e) and the run ends
\* with the ignore signal and with nothing else; the failure path never
\* writes processing and never starts the task again.
C7_FailurePath ==
    /\ [][(exc' # exc /\ exc' # "") => (pc' = "except" /\ outcome' = "none")]_vars
    /\ [][(pc \in {"except", "fail_save"} /\ pc' # pc)
            => /\ pc' = "report" \/ (pc = "except" /\ pc' = "fail_save")
               /\ exc' = exc
               /\ job' = IF fail_saved' THEN MarkFailed(job, exc) ELSE job]_vars
    /\ [](pc = "report" /\ fail_saved /\ job.exists
            => job.status = "failed" /\ job.error_message = exc)
    /\ [][(pc = "report" /\ pc' # "report")
            => /\ task_state' = [state |-> "FAILURE", meta |-> [error |-> exc]]
               /\ pc' = "ignore"
               /\ exc' = exc]_vars
    /\ [][(pc = "ignore" /\ pc' # "ignore")
            => /\ task_state' = task_state
               /\ outcome' = "ignored"
               /\ pc' = "idle"]_vars
    /\ [][(pc \in {"except", "fail_save", "report", "ignore"})
            => /\ runs' = runs
               /\ outcome' # "returned"
               /\ job'.status = "processing" => job.status = "processing"]_vars

\* C8: when ffmpeg is absent or exits non-zero, the step raises nothing,
\* deletes nothing and selects the raw file; the final save of such a run
\* persists completed with processed_video = the raw path
\* videos/<user>/processed/processed_raw_<id>.mp4 and deletes nothing,
\* and the run returns; the raw file is on storage from the transcode to
\* the return, as long as no delete request of the owner has removed
\* files.
C8_TranscodeFallback ==
    /\ [][(pc = "ffmpeg" /\ ffmpeg_result' \in {"ffmpeg_absent", "ffmpeg_nonzero"})
            => /\ pc' = "finalize"
               /\ use_raw_as_fallback'
               /\ exc' = exc
               /\ files' = files]_vars
    /\ [][(pc = "finalize" /\ use_raw_as_fallback /\ pc' = "return")
            => /\ job'.exists
               /\ job'.status = "completed"
               /\ job'.processed_video =
                    <<"videos", UserId, "processed", "processed_raw_", JobId, ".mp4">>
               /\ files' = files]_vars
    /\ []((pc \in {"finalize", "return"} /\ use_raw_as_fallback
              /\ del_pc \in {"idle", "read", "original_removed"})
            => vd_raw_path \in files)
    /\ [][(pc = "return" /\ use_raw_as_fallback /\ pc' # "return")
            => /\ pc' = "idle"
               /\ outcome' = "returned"]_vars

\* C8 witness: a job completed on the raw file after a failed transcode.
C8_Witness ==
    /\ Returned
    /\ job.exists
    /\ job.status = "completed"
    /\ job.processed_video = vd_raw_path
    /\ vd_raw_path \in files
    /\ vd_final_path \notin files

\* C9: whenever total_frames is 0, the percentage of a PROGRESS update and
\* the progress_percentage of the row are 0, whatever the number of
\* processed frames.
C9_ZeroTotal ==
    /\ (job.exists /\ job.total_frames = 0) => progress_percentage(job) = 0
    /\ (task_state.state = "PROGRESS" /\ task_state.meta.total = 0)
         => task_state.meta.percentage = 0

\* C9 witness: progress reported and persisted for frame 10 of a source
\* whose frame count is unknown.
C9_Witness ==
    /\ task_state.state = "PROGRESS"
    /\ task_state.meta.total = 0
    /\ task_state.meta.current = PROGRESS_EVERY
    /\ job.exists
    /\ job.total_frames = 0
    /\ job.processed_frames = PROGRESS_EVERY

\* C10: a delete removes the row and every Detection row of the job, and
\* removes the source and the output file when they are on storage unless
\* their removal fails: when the row goes, no file the row names is left
\* on storage but one whose removal failed; a file missing on disk or a
\* failed removal does not keep the row or the Detection rows; the job
\* stays deleted.
C10_Delete ==
    /\ [][(job.exists /\ ~job'.exists)
            => /\ detections' = 0
               /\ last_delete'.done
               /\ \A p \in {job.original_video, job.processed_video} :
                    (p # NoFile /\ p \in files') => p \in last_delete'.rm_failed]_vars
    /\ [][(del_pc' # del_pc)
            => <<del_pc, del_pc'>> \in {<<"idle", "read">>,
                                       <<"read", "original_removed">>,
                                       <<"original_removed", "removed">>,
                                       <<"removed", "done">>}]_vars
    /\ [](last_delete.done => (~job.exists /\ detections = 0))

\* A step of the frame loop that saved and reported progress.
SavesProgress == pc = "progress" /\ pc' = "notify"

\* The step that persisted the final record of a run.
SavesFinal == pc = "finalize" /\ pc' = "return"

\* C11 as stated: in a run, every processed_frames value persisted after
\* the initial reset, the final write at completion included, is strictly
\* greater than the value persisted before it.
C11_StrictlyIncreasing ==
    [][(job.exists /\ job'.exists /\ (SavesProgress \/ SavesFinal))
         => job'.processed_frames > job.processed_frames]_vars

\* C11 amended: every processed_frames value a progress update of the
\* loop persists is strictly greater than the value persisted before it;
\* the final write at completion is never smaller than it, and repeats it
\* exactly when the last frame read was one that saved progress (its
\* count a multiple of 10, or equal to the reported total).
C11_NonDecreasing ==
    /\ [][(job.exists /\ job'.exists /\ SavesProgress)
            => /\ job'.processed_frames > job.processed_frames
               /\ job'.processed_frames = frame_idx']_vars
    /\ [][(job.exists /\ job'.exists /\ SavesFinal)
            => /\ job'.processed_frames >= job.processed_frames
               /\ job'.processed_frames = frame_idx
               /\ (job'.processed_frames = job.processed_frames)
                    <=> \/ frame_idx % 10 = 0
                        \/ (total_frames # 0 /\ frame_idx = total_frames)]_vars

\* C11 witness: a run of 11 frames with unknown total has completed; its
\* progress update persisted 10 and its final write 11.
C11_Witness ==
    /\ Returned
    /\ video.reported = 0
    /\ job.exists
    /\ job.status = "completed"
    /\ job.processed_frames = PROGRESS_EVERY + 1

\* C12: the Detection records of a run are written in non-decreasing
\* frame-index order across all its flushes: a flush adds the buffered
\* records after those already written and in the order they were
\* appended; the loop counts frames from 0 and by 1 per frame read, and
\* the records of a frame carry the index the frame was read at.
C12_FrameOrder ==
    /\ [](\A i, j \in 1..Len(written) :
            i < j => written[i].frame_number <= written[j].frame_number)
    /\ [][(pc = "writer" /\ pc' = "loop") => frame_idx' = 0]_vars
    /\ [][(pc = "loop" /\ frame_idx' # frame_idx)
            => /\ frame_idx' = frame_idx + 1
               /\ \/ /\ det_counter' = det_counter
                     /\ written' \o batch_recs' = written \o batch_recs
                  \/ /\ det_counter' > det_counter
                     /\ written' \o batch_recs' =
                          Append(written \o batch_recs,
                                 [frame_number |-> frame_idx,
                                  n |-> det_counter' - det_counter])]_vars
    /\ [][(pc \in {"loop", "flush"} /\ frame_idx' = frame_idx
                /\ written' # written)
            => written' = written \o batch_recs]_vars
    /\ [][(pc \notin {"idle", "loop", "flush"}) => written' = written]_vars

\* C12 witness: two flushes of a run have written the records of frames
\* 0, 1, 2 and 3, in this order.
C12_Witness ==
    /\ Len(flushes) = 2
    /\ Len(written) = 4
    /\ \A i \in 1..4 : written[i].frame_number = i - 1 /\ written[i].n > 0

\* The positions of a run after its first save and before its end.
PastFirstSave ==
    {"load_model", "open", "save_total", "writer", "loop", "preview",
     "flush", "progress", "notify", "ffmpeg", "unlink", "finalize"}

\* C13: the first save of a run persists processing together with
\* processed_frames = 0, detections_count = 0 and an empty error_message,
\* and leaves the other fields alone; the model load, the opening of the
\* source, every frame read, every Detection write and every output file
\* write of the run come after it, while the row holds processing.
C13_ProcessingFirst ==
    /\ [][(pc = "mark" /\ pc' # "mark" /\ pc' # "except")
            => /\ pc' = "load_model"
               /\ job.exists
               /\ job' = [job EXCEPT !.status = "processing",
                                     !.processed_frames = 0,
                                     !.detections_count = 0,
                                     !.error_message = ""]]_vars
    /\ [][(pc' = "load_model" /\ pc # "load_model") => pc = "mark"]_vars
    /\ []((pc \in PastFirstSave /\ job.exists)
            => job.status = "processing" /\ job.error_message = "")
    /\ []((pc \in {"load_model", "open", "save_total", "writer"} /\ job.exists)
            => job.processed_frames = 0 /\ job.detections_count = 0)
    /\ [][(\/ loads' # loads
           \/ model_cached' # model_cached
           \/ open_handles' \ open_handles # {}
           \/ frame_idx' > frame_idx
           \/ detections' > detections
           \/ Len(written') > Len(written)
           \/ files' \ files # {})
            => pc \in PastFirstSave]_vars

\* C13 witness: a second run has just persisted processing; the counters
\* of the row are 0 again although the rows the earlier run wrote exist.
C13_Witness ==
    /\ runs = 2
    /\ pc = "load_model"
    /\ job.exists
    /\ job.status = "processing"
    /\ job.error_message = ""
    /\ job.processed_frames = 0
    /\ job.detections_count = 0
    /\ detections > 0

\* The progress test as the claim states it: the frame just read has a
\* 0-based index that is a multiple of 10.
DueAsStated == (frame_idx - 1) % 10 = 0

\* The progress test of the loop on the number of frames read so far.
Due == frame_idx % 10 = 0 \/ (total_frames # 0 /\ frame_idx = total_frames)

\* An iteration of the loop has ended without a progress update.
EndsIterationSilently ==
    /\ pc' = "loop"
    /\ \/ pc = "loop" /\ frame_idx' # frame_idx
       \/ pc = "preview"
       \/ pc = "flush"

\* C14 as stated: progress is saved and reported exactly in the iterations
\* whose frame has a 0-based index that is a multiple of 10, the first
\* for index 0, and the report carries current = that index.
C14_EveryTenthIndex ==
    /\ [](pc \in {"progress", "notify"} => DueAsStated)
    /\ [][EndsIterationSilently => ~DueAsStated']_vars
    /\ [][(pc = "notify" /\ pc' = "loop")
            => /\ task_state'.state = "PROGRESS"
               /\ task_state'.meta.current = frame_idx - 1]_vars

\* C14 amended: with n the number of frames read so far (the 0-based
\* index of the frame just read plus 1), an iteration saves and then
\* reports progress exactly when n is a multiple of 10 or n equals a
\* non-zero total_frames; the save persists processed_frames = n and the
\* detections counted so far, the report carries current = n, total =
\* total_frames and percentage = floor(n * 100 / total), 0 when the total
\* is 0; no other step reports PROGRESS; a save that raises persists and
\* reports nothing, and a report that raises publishes nothing and leaves
\* what the save persisted: both send the run to the failure path.
C14_ProgressPoints ==
    /\ [](pc \in {"progress", "notify"} => Due)
    /\ [][EndsIterationSilently => ~Due']_vars
    /\ [][(pc = "loop" /\ frame_idx' # frame_idx)
            => /\ frame_idx' = frame_idx + 1
               /\ job' = job
               /\ task_state' = task_state]_vars
    /\ [][(pc = "progress" /\ pc' # "progress")
            => \/ /\ pc' = "notify"
                  /\ job.exists
                  /\ job' = [job EXCEPT !.processed_frames = frame_idx,
                                        !.detections_count = det_counter]
                  /\ job.total_frames = total_frames
                  /\ task_state' = task_state
               \/ /\ pc' = "except"
                  /\ job' = job
                  /\ task_state' = task_state]_vars
    /\ [][(pc = "notify" /\ pc' # "notify")
            => \/ /\ pc' = "loop"
                  /\ job' = job
                  /\ task_state' =
                       [state |-> "PROGRESS",
                        meta |-> [current |-> frame_idx,
                                  total |-> total_frames,
                                  percentage |->
                                    IF total_frames = 0 THEN 0
                                    ELSE (frame_idx * 100) \div total_frames]]
               \/ /\ pc' = "except"
                  /\ exc' = "ConnectionError"
                  /\ job' = job
                  /\ task_state' = task_state]_vars
    /\ [][(task_state' # task_state /\ task_state'.state = "PROGRESS")
            => (pc = "notify" /\ pc' = "loop")]_vars

\* C14 witness: progress saved and reported for the frame that reached
\* the reported total, whose count is not a multiple of 10.
C14_Witness ==
    /\ pc = "loop"
    /\ task_state.state = "PROGRESS"
    /\ task_state.meta.current = total_frames
    /\ task_state.meta.current % 10 # 0
    /\ task_state.meta.percentage = 100
    /\ job.exists
    /\ job.processed_frames = task_state.meta.current

RECURSIVE SumThreshold(_)
\* Number of records written by the threshold-triggered flushes of fl.
SumThreshold(fl) ==
    IF fl = <<>> THEN 0
    ELSE (IF fl[1].kind = "threshold" THEN fl[1].n ELSE 0)
         + SumThreshold(Tail(fl))

\* C15 as stated: after a failed run the Detection rows of the job are
\* exactly the records its threshold-triggered flushes wrote.
C15_OnlyThresholdFlushes ==
    (outcome \in {"ignored", "raised:ConnectionError"} /\ job.exists)
        => detections = SumThreshold(flushes)

\* C15 amended: the failure path writes no Detection record and removes
\* none, and the buffer ends with the run; the rows of the job change
\* only by a flush of the loop or its end, which adds the records it
\* wrote, and by the deletion of the job; so the rows a failed run leaves
\* are those that were there when it started and those its completed
\* flushes wrote, the final flush included when the failure came after
\* the loop (in a first run: exactly the records of its flushes).
C15_FailureKeepsFlushed ==
    /\ [][(pc \in {"except", "fail_save", "report", "ignore"})
            => /\ flushes' = flushes
               /\ written' = written
               /\ detections' = detections \/ (job.exists /\ ~job'.exists)]_vars
    /\ [][(pc \in {"report", "ignore"} /\ pc' = "idle")
            => (batch' = 0 /\ batch_recs' = <<>>)]_vars
    /\ [][(detections' # detections)
            => \/ /\ pc \in {"loop", "flush"}
                  /\ Len(flushes') = Len(flushes) + 1
                  /\ detections' = detections + flushes'[Len(flushes')].n
               \/ (job.exists /\ ~job'.exists /\ detections' = 0)]_vars
    /\ []((runs = 1 /\ job.exists) => detections = SumN(flushes))

\* C15 witness: a first run failed in the loop after a threshold flush,
\* with records in the buffer; failed has been persisted and the rows of
\* the job are those of the flush, fewer than the detections counted.
C15_Witness ==
    /\ pc = "report"
    /\ runs = 1
    /\ fail_saved
    /\ job.exists
    /\ job.status = "failed"
    /\ batch > 0
    /\ Len(flushes) > 0
    /\ detections = SumN(flushes)
    /\ det_counter = detections + batch

\* C16: over the runs one worker process handles, the model is built at
\* most once: after the first call of _load_model that succeeded, every
\* later call returns the cached pair without building again and without
\* raising, and nothing changes the class-color map, which that load set
\* from the names of the model; a call that fails on the missing model
\* path sends its run to the failure path and leaves nothing cached.
C16_ModelCache ==
    /\ [](loads <= 1)
    /\ [](model_cached <=> loads = 1)
    /\ [][model_cached
            => /\ model_cached'
               /\ loads' = loads
               /\ class_color_map' = class_color_map]_vars
    /\ [][(pc = "load_model" /\ model_cached /\ pc' # "load_model")
            => (pc' = "open" /\ exc' = exc)]_vars
    /\ [][(loads' # loads)
            => /\ pc = "load_model"
               /\ pc' = "open"
               /\ loads' = loads + 1
               /\ model_cached'
               /\ DOMAIN class_color_map' = {names[i] : i \in 1..Len(names)}]_vars
    /\ [][(pc = "load_model" /\ pc' = "except")
            => /\ exc' = "FileNotFoundError"
               /\ ~model_cached'
               /\ loads' = loads
               /\ class_color_map' = class_color_map]_vars
    /\ [][(class_color_map' # class_color_map) => loads' # loads]_vars

\* C16 witness: the second run of the process is past its _load_model
\* call; the model was built once, by the first run, which went on to
\* write Detection rows.
C16_Witness ==
    /\ runs = 2
    /\ pc = "open"
    /\ model_cached
    /\ loads = 1
    /\ detections > 0

\* The row was made before any delete_video request read a sample job.
BeforeDelete(r) == sample_log.first = 0 \/ r.id < sample_log.first

\* C17: the rows use_sample_video makes have distinct ids, and those made
\* before any deletion began have distinct source files; each source file
\* is a copy stored under the user's directory, under a name no file had,
\* and never the sample itself; deleting one of these jobs removes at
\* most the copy of the row read and leaves the copy of every other on
\* storage; no request and no deletion creates, replaces or removes a
\* sample file.
C17_SampleCopies ==
    /\ [](\A r1, r2 \in sample_rows : r1 # r2 => r1.id # r2.id)
    /\ [](\A r1, r2 \in sample_rows :
            (r1.id # r2.id /\ BeforeDelete(r1) /\ BeforeDelete(r2))
              => r1.original_video # r2.original_video)
    /\ [](\A r \in sample_rows :
            /\ r.original_video \notin SamplePaths
            /\ r.user_id = UserId
            /\ r.original_video[1] = "videos"
            /\ r.original_video[3] = "original"
            /\ (BeforeDelete(r) /\ r.id \notin sample_log.ids)
                 => r.original_video \in files)
    /\ [][(files' \cap SamplePaths) = (files \cap SamplePaths)]_vars
    /\ [][(sample_req.pc = "store" /\ sample_req'.pc = "insert")
            => /\ sample_req'.name \notin files
               /\ files' = files \cup {sample_req'.name}]_vars
    /\ [][(sample_req.pc = "insert" /\ sample_req'.pc = "delay")
            => \E r \in sample_rows' :
                 /\ sample_rows' = sample_rows \cup {r}
                 /\ r.id = next_id
                 /\ \A q \in sample_rows : q.id < r.id
                 /\ r.original_video = sample_req.name
                 /\ r.title = sample_title(sample_req.code)
                 /\ r.status = "pending"]_vars
    /\ [][(files' # files /\ sample_del' # sample_del)
            => /\ files' \subseteq files
               /\ files \ files' \subseteq {sample_del.obj.original_video}]_vars

\* C17 witness: sample1 was requested twice and both requests were
\* served before any deletion; then the first job was deleted with its
\* copy: the second job has its own copy under another name, and the
\* sample file is still there.
C17_Witness ==
    /\ next_id = 3
    /\ sample_log = [first |-> 3, ids |-> {1}]
    /\ sample_del.pc = "idle"
    /\ response = "detail"
    /\ sample_path("sample1") \in files
    /\ original_upload_path(UserId, "rail_1.mp4") \notin files
    /\ \E r \in sample_rows :
         /\ sample_rows = {r}
         /\ r.id = 2
         /\ r.title = sample_title("sample1")
         /\ r.task_id = "task2"
         /\ r.original_video # original_upload_path(UserId, "rail_1.mp4")
         /\ r.original_video \in files

\* C18: when ffmpeg succeeds, the step raises nothing and selects the
\* re-encoded file; the raw file is removed, or its removal fails and the
\* step goes on all the same; the final save of such a run persists
\* completed with processed_video =
\* videos/<user>/processed/processed_<id>.mp4 and the run returns, whether
\* or not the raw file is still there.
C18_TranscodeSuccess ==
    /\ [][(pc = "ffmpeg" /\ ffmpeg_result' = "ok")
            => /\ pc' = "unlink"
               /\ ~use_raw_as_fallback'
               /\ exc' = exc
               /\ files' = files \cup {vd_final_path}]_vars
    /\ [][(pc = "unlink" /\ pc' # "unlink")
            => /\ pc' = "finalize"
               /\ ~use_raw_as_fallback'
               /\ exc' = exc
               /\ ffmpeg_result' = "ok"
               /\ \/ files' = files \ {vd_raw_path}
                  \/ files' = files]_vars
    /\ []((pc \in {"unlink", "finalize", "return"} /\ ffmpeg_result = "ok")
            => ~use_raw_as_fallback)
    /\ [][(pc = "finalize" /\ ffmpeg_result = "ok" /\ pc' = "return")
            => /\ job'.exists
               /\ job'.status = "completed"
               /\ job'.processed_video =
                    <<"videos", UserId, "processed", "processed_", JobId, ".mp4">>]_vars
    /\ [][(pc = "return" /\ ffmpeg_result = "ok" /\ pc' # "return")
            => /\ pc' = "idle"
               /\ outcome' = "returned"]_vars

\* C18 witness: a job completed on the re-encoded file although the raw
\* file could not be removed.
C18_Witness ==
    /\ Returned
    /\ job.exists
    /\ job.status = "completed"
    /\ job.processed_video = vd_final_path
    /\ vd_final_path \in files
    /\ vd_raw_path \in files

\* The class names of the loaded model.
NameSet == {names[i] : i \in 1..Len(names)}

\* The last position (from 1) at which name occurs in the class list.
LastPosition(name) ==
    CHOOSE i \in 1..Len(names) :
        names[i] = name /\ \A k \in (i + 1)..Len(names) : names[k] # name

\* C19 as stated: once the model is loaded, the label at position i of
\* the class list has palette entry i mod 6, a label that is not in the
\* map is drawn in (0,255,0), and a class is drawn in one color only.
C19_PositionColor ==
    loads = 1 =>
        /\ \A i \in 1..Len(names) :
             class_color_map[names[i]] = CLASS_PALETTE_6[((i - 1) % 6) + 1]
        /\ \A p \in drawn :
             p[1] \notin DOMAIN class_color_map => p[2] = <<0, 255, 0>>
        /\ \A p, q \in drawn : p[1] = q[1] => p[2] = q[2]

\* C19 amended: the map holds exactly the names of the class list, and a
\* name has palette entry i mod 6 for the last position i (from 0) at
\* which it occurs in the list, which is its only position when the names
\* are distinct; every box is drawn in the color the map holds for its
\* class name, or in (0,255,0) when the map does not hold the name; so a
\* class is drawn in one color in all the frames of a run.
C19_LabelColor ==
    loads = 1 =>
        /\ DOMAIN class_color_map = NameSet
        /\ \A name \in NameSet :
             class_color_map[name] =
                 CLASS_PALETTE_6[((LastPosition(name) - 1) % 6) + 1]
        /\ \A p \in drawn :
             p[2] = IF p[1] \in NameSet
                    THEN CLASS_PALETTE_6[((LastPosition(p[1]) - 1) % 6) + 1]
                    ELSE <<0, 255, 0>>
        /\ \A p, q \in drawn : p[1] = q[1] => p[2] = q[2]

\* C19 witness: a run over a model whose class list names class 0 again
\* at position 1 has drawn a box of that class in the color of position 1
\* and a box of a class without a name in the default color.
C19_Witness ==
    /\ Returned
    /\ Len(names) >= 2
    /\ names[2] = names[1]
    /\ \A k \in 3..Len(names) : names[k] # names[1]
    /\ <<names[1], CLASS_PALETTE_6[2]>> \in drawn
    /\ \E p \in drawn : p[1] \notin NameSet /\ p[2] = DEFAULT_COLOR

\* The ways a transcode attempt can end without raising.
TranscodeEnded == {"ok", "ffmpeg_absent", "ffmpeg_nonzero"}

\* C20: in every run the transcode is attempted only from the step that
\* follows the loop, when every frame of the source has been read, the
\* capture and the writer are released and the flushes of the run have
\* written every detection it counted; and completed is persisted only
\* by the final save, after the transcode attempt has ended.
C20_TranscodeOrder ==
    /\ [][(ffmpeg_result' # ffmpeg_result /\ ffmpeg_result' # "none")
            => /\ pc = "ffmpeg"
               /\ frame_idx = video.frames
               /\ open_handles = {}
               /\ SumN(flushes) = det_counter]_vars
    /\ [][(pc' = "ffmpeg" /\ pc # "ffmpeg")
            => (pc = "loop" /\ frame_idx = video.frames)]_vars
    /\ [][(pc' = "finalize" /\ pc # "finalize")
            => \/ pc = "ffmpeg" /\ ffmpeg_result' \in TranscodeEnded \ {"ok"}
               \/ pc = "unlink" /\ ffmpeg_result = "ok"]_vars
    /\ [][(pc' = "unlink" /\ pc # "unlink")
            => (pc = "ffmpeg" /\ ffmpeg_result' = "ok")]_vars
    /\ []((pc \in {"ffmpeg", "unlink", "finalize", "return"})
            => (open_handles = {} /\ SumN(flushes) = det_counter))
    /\ [][(job'.exists /\ job'.status = "completed"
              /\ job.status # "completed")
            => /\ pc = "finalize"
               /\ ffmpeg_result \in TranscodeEnded
               /\ SumN(flushes) = det_counter]_vars

\* C20 witness: the transcode of a run has ended; the loop had written
\* its detections in a threshold flush and a final flush and released the
\* capture and the writer before.
C20_Witness ==
    /\ pc = "finalize"
    /\ ffmpeg_result = "ok"
    /\ open_handles = {}
    /\ Len(flushes) >= 2
    /\ flushes[1].kind = "threshold"
    /\ flushes[Len(flushes)].kind = "final"
    /\ SumN(flushes) = det_counter

\* The fields of a row that the pipeline writes.
PipelineFields(j) ==
    <<j.status, j.total_frames, j.processed_frames, j.detections_count,
      j.error_message, j.processed_video>>

\* C21: a kill changes nothing that is persisted; a run killed after its
\* first save leaves the row with what the run persisted last, status
\* processing when it was killed before its final save and before the
\* save of its failure path; after a kill, as long as
\* the task is not run again, no step but the deletion of the job changes
\* the status, the counters, the message or the output of the row; the
\* status request only reads.
C21_KilledStaysProcessing ==
    /\ [][(pc # "idle" /\ outcome' = "killed")
            => /\ pc' = "idle"
               /\ job' = job
               /\ detections' = detections
               /\ files' = files
               /\ (pc \in PastFirstSave /\ job.exists)
                    => job'.status = "processing"
               /\ (pc = "return" /\ job.exists)
                    => job'.status = "completed"]_vars
    /\ [][(pc = "idle" /\ outcome = "killed" /\ pc' = "idle" /\ job'.exists)
            => /\ PipelineFields(job') = PipelineFields(job)
               /\ outcome' = "killed"]_vars
    /\ [][(status_view' # status_view)
            => (job' = job /\ detections' = detections /\ files' = files)]_vars

\* C21 witness: a run was killed in the loop after a progress update; the
\* row holds processing and the counters of that update, the view has
\* stored the task id and the owner's status request is answered
\* processing.
C21_Witness ==
    /\ pc = "idle"
    /\ outcome = "killed"
    /\ job.exists
    /\ job.status = "processing"
    /\ job.processed_frames > 0
    /\ job.task_id = TaskId
    /\ status_view = StatusData(job)

\* C23: the view's save of task_id and the saves of the run write
\* different fields of the row: a step changes task_id only when it is the
\* view's save, the view's save changes none of status, counters,
\* error_message and output, and once the view has saved, the row holds
\* the task id as long as it exists, whatever the run saves.
C23_DisjointFields ==
    /\ [][(job.exists /\ job'.exists /\ job'.task_id # job.task_id)
            => (view_pc = "submitted" /\ view_pc' = "done")]_vars
    /\ [][(view_pc' # view_pc)
            => /\ PipelineFields(job') = PipelineFields(job)
               /\ job.exists => job'.task_id = TaskId]_vars
    /\ []((view_pc = "done" /\ job.exists) => job.task_id = TaskId)

\* C23 witness: the view saved the task id of a job whose run is in its
\* loop and has already persisted processing and a progress update.
C23_Witness ==
    /\ view_pc = "done"
    /\ pc = "loop"
    /\ job.exists
    /\ job.task_id = TaskId
    /\ job.status = "processing"
    /\ job.processed_frames > 0

\* C24: at the end of every iteration of the frame loop, det_counter is
\* the number of Detection records the run has persisted so far plus the
\* number of records in the buffer, and the buffer holds fewer than 512
\* records.
C24_CounterSplit ==
    pc = "loop" =>
        /\ det_counter = SumN(flushes) + batch
        /\ detections = SumN(flushes)
        /\ (written = <<>>) <=> (flushes = <<>>)
        /\ (batch_recs = <<>>) <=> (batch = 0)
        /\ batch < BATCH_SIZE

\* C24 witness: after a frame of 600 boxes, flushed whole, and a frame of
\* 425 boxes, kept in the buffer, det_counter is 1025.
C24_Witness ==
    /\ pc = "loop"
    /\ Len(flushes) = 1
    /\ flushes[1].n = 600
    /\ detections = 600
    /\ batch = 425
    /\ det_counter = 1025

\* C25: once the owner has deleted the job, no step of a run brings the
\* row or a Detection record back; a step of the run that would save the
\* row (the first save, the save of total_frames, a progress update, the
\* final save) or flush the buffer raises instead and persists nothing;
\* the failure path's own save persists nothing either; and a run whose
\* job was deleted before its final save can end only from the failure
\* path, with FAILURE reported and the ignore signal raised, never with a
\* returned summary and never with another exception.
C25_DeletedStaysDeleted ==
    /\ [][(~job.exists) => (~job'.exists /\ job' = job /\ detections' = 0)]_vars
    /\ [][(~job.exists /\ pc' # pc
              /\ pc \in {"mark", "save_total", "flush", "progress",
                         "finalize"})
            => pc' = "except"]_vars
    /\ [][(~job.exists /\ pc \in {"except", "fail_save"})
            => (~fail_saved' /\ (pc' = pc \/ pc' = "report"))]_vars
    /\ [][(~job.exists /\ pc \notin {"idle", "return"} /\ pc' = "idle")
            => /\ pc = "ignore"
               /\ outcome' = "ignored"
               /\ task_state'.state = "FAILURE"]_vars

\* C26: a run that is not killed ends, and it ends in exactly one of two
\* ways: by its return, after the final save has persisted completed,
\* with the summary {status: completed, detections, frames} and nothing
\* of the failure path executed; or from the failure path, with FAILURE
\* reported and the ignore signal raised and no summary returned.
C26_TwoEndings ==
    /\ [][(pc # "idle" /\ pc' = "idle")
            => \/ /\ pc = "return"
                  /\ outcome' = "returned"
                  /\ task_state' = [state |-> "SUCCESS",
                                    meta |-> [status |-> "completed",
                                              detections |-> det_counter,
                                              frames |-> frame_idx]]
                  /\ ~fail_saved
               \/ /\ pc = "ignore"
                  /\ outcome' = "ignored"
                  /\ task_state' = [state |-> "FAILURE",
                                    meta |-> [error |-> exc]]
                  /\ job' = job]_vars
    /\ [][(pc' = "return" /\ pc # "return")
            => (pc = "finalize" /\ job'.exists /\ job'.status = "completed")]_vars
    /\ [][(pc \in {"except", "fail_save", "report", "ignore"})
            => pc' \notin {"finalize", "return"}]_vars
    /\ [](pc # "idle" => outcome = "none")
    /\ ((pc # "idle") ~> (pc = "idle"))

\* The names of the output files of a run.
RunPaths(r) == {PathString(r.raw), PathString(r.final), PathString(r.preview)}

\* The run has built the paths of its outputs.
Started(r) == r.raw # NoFile

\* C22: the raw, final and preview paths of any two distinct jobs whose
\* runs have started are six different names, whoever owns the jobs; a
\* step of the run of one job leaves the row, the Detection rows and the
\* run of every other job as they were, and adds to storage or removes
\* from it only files of its own job.
C22_JobsIsolated ==
    /\ [](\A i, j \in DOMAIN pair_run :
            (i # j /\ Started(pair_run[i]) /\ Started(pair_run[j]))
              => /\ Cardinality(RunPaths(pair_run[i])) = 3
                 /\ RunPaths(pair_run[i]) \cap RunPaths(pair_run[j]) = {})
    /\ [][\A i, j \in DOMAIN pair_run :
            (i # j /\ pair_run'[i] # pair_run[i])
              => /\ pair_rows'[j] = pair_rows[j]
                 /\ pair_dets'[j] = pair_dets[j]
                 /\ pair_run'[j] = pair_run[j]
                 /\ ((files' \ files) \cup (files \ files'))
                      \subseteq {pair_run'[i].raw, pair_run'[i].final,
                                  pair_run'[i].preview}]_vars

\* C22 witness: two jobs of one user, both runs in the loop, each with
\* its own frame count, counters in its row and Detection rows.
C22_Witness ==
    /\ Len(pair_run) >= 2
    /\ pair_rows[1].user_id = pair_rows[2].user_id
    /\ pair_run[1].pc = "loop"
    /\ pair_run[2].pc = "loop"
    /\ pair_run[1].frame_idx = PairFrames
    /\ pair_run[2].frame_idx = PairShort
    /\ pair_rows[1].status = "processing"
    /\ pair_rows[2].status = "processing"
    /\ pair_rows[1].processed_frames = PairFrames
    /\ pair_rows[2].processed_frames = PairShort
    /\ pair_dets[1] > pair_dets[2]
    /\ pair_dets[2] > 0
    /\ pair_run[1].raw \in files
    /\ pair_run[2].raw \in files
    /\ pair_run[1].preview \in files

====
